---- MODULE Spec2Model ----
(***************************************************************************)
(* A model of bfirs: the optimizing brainfuck pipeline (compiler.rs,       *)
(* ir.rs), the shared tape state (state.rs) and the execution tiers        *)
(* (interpreter.rs, ir.rs, minibit.rs, stupid.rs).                         *)
(*                                                                         *)
(* Cells are <<hi, lo>> pairs of 16-bit limbs so that the 32-bit width is  *)
(* represented exactly; a width of 8 or 16 keeps hi = 0.  Instruction and  *)
(* tape indices are 0-based as in the source; a sequence s is read at      *)
(* s[i + 1].                                                               *)
(***************************************************************************)
EXTENDS Integers, Sequences, FiniteSets, TLC

VARIABLES
    prog,     \* the run's configuration: source bytes, cell width, tape length
    stream,   \* BfInstructionStream compiled from prog.src (or the compile error)
    exe,      \* BrainFuckExecutor driven in budget slices (run_limited_from)
    ref,      \* BrainFuckExecutor driven by one unlimited run()
    compiled, \* per execution tier, what the tier compiled prog.src to
    mach,     \* per execution tier, the tier's tape state and run locals
    first,    \* the tier that runs first; the others follow in turn
    hist      \* per tier, history: the bytes of the Writes executed so far

vars == <<prog, stream, exe, ref, compiled, mach, first, hist>>

\* the value of a variable the specification at hand does not use
Unused == <<>>

-----------------------------------------------------------------------------
(* Bounds of the model *)

MaxProgLen == 3     \* every source text up to this length is explored
MaxN == 2           \* tape lengths 1..MaxN (curated programs: up to MaxN + 1)
MaxSlice == 2       \* largest amount one add_instruction_limit call adds
MaxLimit == 3       \* cap on the budget held at any time
MaxOut == 3         \* a run is followed until the writer holds this many bytes
Window == 4         \* 16/32-bit cells are followed this far from 0, either side

-----------------------------------------------------------------------------
(* Cell arithmetic: compiler.rs BfOptimizable for u8 / u16 / u32 *)

Limb == 2^16

Widths == {8, 16, 32}

ZERO == <<0, 0>>

\* the cell holding the natural number n (n below 2^31), reduced to width w
CellOf(n, w) ==
    IF w = 8 THEN <<0, n % 256>>
    ELSE IF w = 16 THEN <<0, n % Limb>>
    ELSE <<(n \div Limb) % Limb, n % Limb>>

\* T::MAX
MAXc(w) ==
    IF w = 8 THEN <<0, 255>>
    ELSE IF w = 16 THEN <<0, Limb - 1>>
    ELSE <<Limb - 1, Limb - 1>>

wrapping_add(a, b, w) ==
    LET lo == a[2] + b[2]
    IN  IF w = 8 THEN <<0, lo % 256>>
        ELSE IF w = 16 THEN <<0, lo % Limb>>
        ELSE <<(a[1] + b[1] + (lo \div Limb)) % Limb, lo % Limb>>

wrapping_sub(a, b, w) ==
    LET lo == a[2] - b[2]
    IN  IF w = 8 THEN <<0, lo % 256>>
        ELSE IF w = 16 THEN <<0, lo % Limb>>
        ELSE <<(a[1] - b[1] + (lo \div Limb)) % Limb, lo % Limb>>

truncate_u8(c) == c[2] % 256

from_u8(b) == <<0, b>>

-----------------------------------------------------------------------------
(* Source text *)

Alphabet == {"+", "-", ">", "<", ".", ",", "[", "]"}

AllTexts(len) == UNION {[1..k -> Alphabet] : k \in 0..len}

-----------------------------------------------------------------------------
(* compiler.rs: BfInstruc and the BfInstructionStream passes *)

Ins(op, arg) == [op |-> op, arg |-> arg]

\* TryFrom<u8> for BfInstruc: the eight program bytes, jump operands still 0
try_from(byte) ==
    CASE byte = "+" -> Ins("Inc", 0)
      [] byte = "-" -> Ins("Dec", 0)
      [] byte = ">" -> Ins("IncPtr", 0)
      [] byte = "<" -> Ins("DecPtr", 0)
      [] byte = "." -> Ins("Write", 0)
      [] byte = "," -> Ins("Read", 0)
      [] byte = "[" -> Ins("LStart", 0)
      [] byte = "]" -> Ins("LEnd", 0)
      [] OTHER -> Ins("Err", 0)

bf_to_stream(v) ==
    SelectSeq([i \in 1..Len(v) |-> try_from(v[i])], LAMBDA x : x.op # "Err")

is_multi_optimizable(i) == i.op \in {"Inc", "Dec", "IncPtr", "DecPtr"}

\* as_multi_with reducing the run length modulo T::MAX in place of T::MAX + 1
as_multi_with_max(i, v, w) ==
    LET loop_use == IF w = 32 THEN v ELSE v % MAXc(w)[2]
    IN  CASE i.op = "Inc" -> Ins("IncBy", CellOf(loop_use, w))
          [] i.op = "Dec" -> Ins("DecBy", CellOf(loop_use, w))
          [] i.op = "IncPtr" -> Ins("IncPtrBy", v)
          [] i.op = "DecPtr" -> Ins("DecPtrBy", v)

\* v is the u32 run length; the cell operand is v % (T::MAX + 1), and v itself
\* when T::MAX + 1 does not fit u32 (the 32-bit width)
as_multi_with(i, v, w) ==
    LET loop_use == IF w = 32 THEN v ELSE v % (MAXc(w)[2] + 1)
    IN  CASE i.op = "Inc" -> Ins("IncBy", CellOf(loop_use, w))
          [] i.op = "Dec" -> Ins("DecBy", CellOf(loop_use, w))
          [] i.op = "IncPtr" -> Ins("IncPtrBy", v)
          [] i.op = "DecPtr" -> Ins("DecPtrBy", v)

\* the length of the run of instructions equal to s[i + 1] that starts there
RunLen(s, i) ==
    LET len == Len(s)
        stop == {j \in (i + 1)..len : IF j = len THEN TRUE ELSE s[j + 1] # s[i + 1]}
    IN  (CHOOSE j \in stop : \A k \in stop : j <= k) - i

RECURSIVE group_from(_, _, _)
group_from(s, i, w) ==
    IF i >= Len(s) THEN <<>>
    ELSE IF is_multi_optimizable(s[i + 1])
         THEN LET ctr == RunLen(s, i)
              IN  <<IF ctr = 1 THEN s[i + 1] ELSE as_multi_with(s[i + 1], ctr, w)>>
                      \o group_from(s, i + ctr, w)
         ELSE <<s[i + 1]>> \o group_from(s, i + 1, w)

group_common_bf(s, w) == group_from(s, 0, w)

OPT_COUNT == 2

static_tree ==
    << [pat |-> <<Ins("LStart", 0), Ins("Dec", 0), Ins("LEnd", 0)>>, to |-> Ins("Zero", 0)],
       [pat |-> <<Ins("LStart", 0), Ins("Inc", 0), Ins("LEnd", 0)>>, to |-> Ins("Zero", 0)] >>

\* one pattern's position after seeing instruction x
PathStep(k, p, x) ==
    IF x = static_tree[k].pat[p + 1] THEN p + 1
    ELSE IF x = static_tree[k].pat[1] THEN 1 ELSE 0

\* one sweep of static_optimize over v from index i: paths are the pattern
\* positions, out the compacted prefix v[..newidx]; returns <<out, optimized_count>>
RECURSIVE static_sweep(_, _, _, _, _)
static_sweep(v, i, paths, out, count) ==
    IF i >= Len(v) THEN <<out, count>>
    ELSE LET x == v[i + 1]
             p1 == PathStep(1, paths[1], x)
             hit1 == p1 = Len(static_tree[1].pat)
             p2 == IF hit1 THEN paths[2] ELSE PathStep(2, paths[2], x)
             hit2 == ~hit1 /\ p2 = Len(static_tree[2].pat)
             pushed == Append(out, x)
         IN  IF hit1 \/ hit2
             THEN LET k == IF hit1 THEN 1 ELSE 2
                      cnt == Len(static_tree[k].pat)
                  IN  static_sweep(v, i + 1, <<0, 0>>,
                          Append(SubSeq(pushed, 1, Len(pushed) - cnt), static_tree[k].to),
                          count + 1)
             ELSE static_sweep(v, i + 1, <<p1, p2>>, pushed, count)

RECURSIVE static_optimize(_)
static_optimize(v) ==
    LET r == static_sweep(v, 0, <<0, 0>>, <<>>, 0)
    IN  IF r[2] = 0 THEN r[1] ELSE static_optimize(r[1])

\* Result<Vec<BfInstruc>, BfCompError>
Compiled(code) == [err |-> "none", code |-> code]
CompError(err) == [err |-> err, code |-> <<>>]

\* jump_points pairing an LEnd with the oldest open LStart
RECURSIVE jump_points_fifo(_, _, _)
jump_points_fifo(s, idx, stack) ==
    IF idx >= Len(s)
    THEN IF stack # <<>> THEN CompError("LoopCountMismatch") ELSE Compiled(s)
    ELSE IF s[idx + 1].op = "LStart" THEN jump_points_fifo(s, idx + 1, Append(stack, idx))
    ELSE IF s[idx + 1].op = "LEnd"
         THEN IF stack = <<>> THEN CompError("LoopEndBeforeLoopStart")
              ELSE LET v == stack[1]
                   IN  jump_points_fifo([s EXCEPT ![v + 1] = Ins("LStart", idx),
                                             ![idx + 1] = Ins("LEnd", v)],
                                   idx + 1, Tail(stack))
    ELSE jump_points_fifo(s, idx + 1, stack)

RECURSIVE jump_points(_, _, _)
jump_points(s, idx, stack) ==
    IF idx >= Len(s)
    THEN IF stack # <<>> THEN CompError("LoopCountMismatch") ELSE Compiled(s)
    ELSE IF s[idx + 1].op = "LStart" THEN jump_points(s, idx + 1, Append(stack, idx))
    ELSE IF s[idx + 1].op = "LEnd"
         THEN IF stack = <<>> THEN CompError("LoopEndBeforeLoopStart")
              ELSE LET v == stack[Len(stack)]
                   IN  jump_points([s EXCEPT ![v + 1] = Ins("LStart", idx),
                                             ![idx + 1] = Ins("LEnd", v)],
                                   idx + 1, SubSeq(stack, 1, Len(stack) - 1))
    ELSE jump_points(s, idx + 1, stack)

insert_bf_jump_points(s) == jump_points(s, 0, <<>>)

optimized_from_text(v, w) ==
    insert_bf_jump_points(static_optimize(group_common_bf(bf_to_stream(v), w)))

\* byte_to_hex_literal: the two digits after \x, as indices into LOOKUP
byte_to_hex_literal(b) == <<b \div 16, b % 16>>

\* write_bytestring_c: the escapes of the fwrite literal and its length argument
write_bytestring_c(write) ==
    [lit |-> [i \in 1..Len(write) |-> byte_to_hex_literal(write[i])], len |-> Len(write)]

NoBytes == [lit |-> <<>>, len |-> 0]

\* the `a[idx] = b;` lines: one for each non-zero cell, in tape order
CellLines(data) ==
    LET len == Len(data)
        nz == {i \in 1..len : data[i] # ZERO}
        nth(k) == CHOOSE i \in nz : Cardinality({j \in nz : j < i}) = k - 1
    IN  [k \in 1..Cardinality(nz) |-> <<nth(k) - 1, data[nth(k)]>>]

\* BfExecState; instruction_pointer is -1 for None
BfExecState(cursor, data, instruction_pointer) ==
    [cursor |-> cursor, data |-> data, instruction_pointer |-> instruction_pointer]

\* render_interpreted_c leaving out the `a += cursor;` line
render_interpreted_c_no_cursor(code, state, written) ==
    LET some == state.instruction_pointer # -1
        left_off == state.instruction_pointer
    IN  [ fwrite |-> IF written # <<>> THEN write_bytestring_c(written) ELSE NoBytes,
          cells |-> IF some THEN CellLines(state.data) ELSE <<>>,
          advance |-> 0,
          goto |-> some /\ left_off # 0,
          label |-> IF some /\ left_off # 0 /\ left_off < Len(code) THEN left_off ELSE -1,
          body |-> IF some THEN code ELSE <<>> ]

\* render_interpreted_c: the lines of main() after the header.  fwrite is the
\* captured output, cells the tape assignments, advance the operand of
\* `a += cursor;` (0: no line), goto whether `goto startpos_jump;` is written,
\* label the index of the instruction the label stands before (-1: no label),
\* body the instructions rendered.
render_interpreted_c(code, state, written) ==
    LET some == state.instruction_pointer # -1
        left_off == state.instruction_pointer
    IN  [ fwrite |-> IF written # <<>> THEN write_bytestring_c(written) ELSE NoBytes,
          cells |-> IF some THEN CellLines(state.data) ELSE <<>>,
          advance |-> IF some THEN state.cursor ELSE 0,
          goto |-> some /\ left_off # 0,
          label |-> IF some /\ left_off # 0 /\ left_off < Len(code) THEN left_off ELSE -1,
          body |-> IF some THEN code ELSE <<>> ]

-----------------------------------------------------------------------------
(* interpreter.rs: BrainFuckExecutor *)

Tape(n) == [i \in 1..n |-> ZERO]

\* BrainFuckExecutorBuilder::build: the tape filled with the default cell, the
\* pointer at starting_ptr, no budget.  stdout is the byte sequence the writer
\* has received and flushed how many of them it had at its last flush; rerr
\* tells a reader whose every read fails (main.rs ErrorReader).
build(n, input, rerr) ==
    [ data |-> Tape(n), ptr |-> 0, stdout |-> <<>>, flushed |-> 0,
      stdin |-> input, rerr |-> rerr, instruction_limit |-> 0,
      idx |-> 0, res |-> "idle" ]

cur_unchecked(e) == e.data[e.ptr + 1]

map_current(e, c) == [e EXCEPT !.data[e.ptr + 1] = c]

\* Result<(), BfExecErrorTy> of an operation on the executor e
Done(e) == [e |-> e, err |-> "none"]
Fail(e, err) == [e |-> e, err |-> err]

\* inc_ptr_by without the `self.ptr -= v` that undoes a move past the end
inc_ptr_by_unrestored(e, v) ==
    IF e.ptr + v >= Len(e.data) THEN Fail([e EXCEPT !.ptr = e.ptr + v], "Overflow")
    ELSE Done([e EXCEPT !.ptr = e.ptr + v])

inc_ptr_by(e, v) ==
    IF e.ptr + v >= Len(e.data) THEN Fail(e, "Overflow")
    ELSE Done([e EXCEPT !.ptr = e.ptr + v])

dec_ptr_by(e, v) ==
    IF e.ptr - v < 0 THEN Fail(e, "Underflow")
    ELSE Done([e EXCEPT !.ptr = e.ptr - v])

\* elapsed: more than 16 ms have passed since last_flush
write(e, v, elapsed) ==
    LET w1 == [e EXCEPT !.stdout = Append(e.stdout, v)]
    IN  Done(IF elapsed THEN [w1 EXCEPT !.flushed = Len(w1.stdout)] ELSE w1)

\* read with the end of the input reported as the byte 255
read_eof_minus_one(e) ==
    LET f == [e EXCEPT !.flushed = Len(e.stdout)]
    IN  IF e.rerr THEN [e |-> f, v |-> 0, err |-> "IOError"]
        ELSE IF e.stdin = <<>> THEN [e |-> f, v |-> 255, err |-> "none"]
        ELSE [e |-> [f EXCEPT !.stdin = Tail(e.stdin)], v |-> Head(e.stdin), err |-> "none"]

\* returns the executor after the flush and the read, the byte, and the error
read(e) ==
    LET f == [e EXCEPT !.flushed = Len(e.stdout)]
    IN  IF e.rerr THEN [e |-> f, v |-> 0, err |-> "IOError"]
        ELSE IF e.stdin = <<>> THEN [e |-> f, v |-> 0, err |-> "none"]
        ELSE [e |-> [f EXCEPT !.stdin = Tail(e.stdin)], v |-> Head(e.stdin), err |-> "none"]

\* the match on stream[idx]: the executor afterwards, the error, and the idx
\* the closure leaves (a taken jump moves it)
ExecOp(e, i, w, elapsed) ==
    LET stay(r) == [e |-> r.e, err |-> r.err, idx |-> e.idx]
    IN  CASE i.op = "Zero" -> stay(Done(map_current(e, ZERO)))
          [] i.op = "Inc" -> stay(Done(map_current(e, wrapping_add(cur_unchecked(e), from_u8(1), w))))
          [] i.op = "Dec" -> stay(Done(map_current(e, wrapping_sub(cur_unchecked(e), from_u8(1), w))))
          [] i.op = "IncPtr" -> stay(inc_ptr_by(e, 1))
          [] i.op = "DecPtr" -> stay(dec_ptr_by(e, 1))
          [] i.op = "Write" -> stay(write(e, truncate_u8(cur_unchecked(e)), elapsed))
          [] i.op = "Read" ->
                LET r == read(e)
                IN  IF r.err # "none" THEN stay(Fail(r.e, r.err))
                    ELSE stay(Done(map_current(r.e, from_u8(r.v))))
          [] i.op = "LStart" ->
                [e |-> e, err |-> "none",
                 idx |-> IF cur_unchecked(e) = ZERO THEN i.arg ELSE e.idx]
          [] i.op = "LEnd" ->
                [e |-> e, err |-> "none",
                 idx |-> IF cur_unchecked(e) # ZERO THEN i.arg ELSE e.idx]
          [] i.op = "IncBy" -> stay(Done(map_current(e, wrapping_add(cur_unchecked(e), i.arg, w))))
          [] i.op = "DecBy" -> stay(Done(map_current(e, wrapping_sub(cur_unchecked(e), i.arg, w))))
          [] i.op = "IncPtrBy" -> stay(inc_ptr_by(e, i.arg))
          [] i.op = "DecPtrBy" -> stay(dec_ptr_by(e, i.arg))

\* internal_run entered at 0 whatever start is
internal_run_entry_restart(LIMIT, e, start) ==
    IF e.ptr >= Len(e.data) THEN [e EXCEPT !.res = "InitOverflow", !.idx = 0]
    ELSE IF LIMIT /\ e.instruction_limit = 0
         THEN [e EXCEPT !.res = "NotEnoughInstructions", !.idx = 0]
    ELSE [e EXCEPT !.res = "run", !.idx = 0]

\* internal_run's entry with the budget tested before the pointer
internal_run_entry_budget_first(LIMIT, e, start) ==
    IF LIMIT /\ e.instruction_limit = 0
    THEN [e EXCEPT !.res = "NotEnoughInstructions", !.idx = start]
    ELSE IF e.ptr >= Len(e.data) THEN [e EXCEPT !.res = "InitOverflow", !.idx = start]
    ELSE [e EXCEPT !.res = "run", !.idx = start]

\* internal_run up to its loop: the two checks made before the first fetch
internal_run_entry(LIMIT, e, start) ==
    IF e.ptr >= Len(e.data) THEN [e EXCEPT !.res = "InitOverflow", !.idx = start]
    ELSE IF LIMIT /\ e.instruction_limit = 0
         THEN [e EXCEPT !.res = "NotEnoughInstructions", !.idx = start]
    ELSE [e EXCEPT !.res = "run", !.idx = start]

\* internal_run's loop without its budget test, the budget saturating at zero
internal_run_iter_entry_test_only(LIMIT, s, e, w, elapsed) ==
    IF ~(e.idx < Len(s)) THEN [e EXCEPT !.res = "Ok"]
    ELSE LET r == ExecOp(e, s[e.idx + 1], w, elapsed)
         IN  IF r.err # "none" THEN [r.e EXCEPT !.res = r.err]
             ELSE [r.e EXCEPT !.idx = r.idx + 1,
                              !.instruction_limit = IF LIMIT /\ @ > 0 THEN @ - 1 ELSE @]

\* internal_run's loop with the budget left alone by the two jumps
internal_run_iter_free_jumps(LIMIT, s, e, w, elapsed) ==
    IF ~(e.idx < Len(s)) THEN [e EXCEPT !.res = "Ok"]
    ELSE IF LIMIT /\ e.instruction_limit = 0 THEN [e EXCEPT !.res = "NotEnoughInstructions"]
    ELSE LET r == ExecOp(e, s[e.idx + 1], w, elapsed)
         IN  IF r.err # "none" THEN [r.e EXCEPT !.res = r.err]
             ELSE [r.e EXCEPT !.idx = r.idx + 1,
                              !.instruction_limit =
                                  IF LIMIT /\ s[e.idx + 1].op \notin {"LStart", "LEnd"}
                                  THEN @ - 1 ELSE @]

\* one pass of internal_run's while loop, the loop test included
\* internal_run's loop testing the budget before the loop condition
internal_run_iter_budget_first(LIMIT, s, e, w, elapsed) ==
    IF LIMIT /\ e.instruction_limit = 0 THEN [e EXCEPT !.res = "NotEnoughInstructions"]
    ELSE IF ~(e.idx < Len(s)) THEN [e EXCEPT !.res = "Ok"]
    ELSE LET r == ExecOp(e, s[e.idx + 1], w, elapsed)
         IN  IF r.err # "none" THEN [r.e EXCEPT !.res = r.err]
             ELSE [r.e EXCEPT !.idx = r.idx + 1,
                              !.instruction_limit = IF LIMIT THEN @ - 1 ELSE @]

internal_run_iter(LIMIT, s, e, w, elapsed) ==
    IF ~(e.idx < Len(s)) THEN [e EXCEPT !.res = "Ok"]
    ELSE IF LIMIT /\ e.instruction_limit = 0 THEN [e EXCEPT !.res = "NotEnoughInstructions"]
    ELSE LET r == ExecOp(e, s[e.idx + 1], w, elapsed)
         IN  IF r.err # "none" THEN [r.e EXCEPT !.res = r.err]
             ELSE [r.e EXCEPT !.idx = r.idx + 1,
                              !.instruction_limit = IF LIMIT THEN @ - 1 ELSE @]

add_instruction_limit(e, amount) ==
    [e EXCEPT !.instruction_limit = e.instruction_limit + amount]

run(s, e) == internal_run_entry(FALSE, e, 0)

run_limited_from(s, e, start) == internal_run_entry(TRUE, e, start)

-----------------------------------------------------------------------------
(* state.rs: BfState, the tape state shared by InterpreterStream and minibit *)

\* BfState::new with ptr 0: wr is the byte sequence the writer has received,
\* flushed how many of them it had at its last flush
BfState_new(n, input, rerr) ==
    [ ptr |-> 0, cells |-> Tape(n), rd |-> input, rerr |-> rerr,
      wr |-> <<>>, flushed |-> 0 ]

\* BfState::new: Ok with the state, or Err with the four arguments
new(ptr, cells, rd, rerr) ==
    IF ptr < Len(cells)
    THEN [ok |-> TRUE,
          st |-> [ptr |-> ptr, cells |-> cells, rd |-> rd, rerr |-> rerr,
                  wr |-> <<>>, flushed |-> 0]]
    ELSE [ok |-> FALSE, st |-> <<ptr, cells, rd, rerr>>]

get(st) == st.cells[st.ptr + 1]

set(st, c) == [st EXCEPT !.cells[st.ptr + 1] = c]

\* zero that stores nothing
zero_skipped(st) == st

zero(st) == set(st, ZERO)

state_write(st) == Done([st EXCEPT !.wr = Append(st.wr, truncate_u8(get(st)))])

state_read(st) ==
    LET f == [st EXCEPT !.flushed = Len(st.wr)]
    IN  IF st.rerr THEN Fail(f, "IOError")
        ELSE IF st.rd = <<>> THEN Done(set(f, from_u8(0)))
        ELSE Done(set([f EXCEPT !.rd = Tail(st.rd)], from_u8(Head(st.rd))))

inc(st, by, w) == set(st, wrapping_add(get(st), by, w))

dec(st, by, w) == set(st, wrapping_sub(get(st), by, w))

inc_ptr(st, by) ==
    IF st.ptr + by < Len(st.cells) THEN Done([st EXCEPT !.ptr = st.ptr + by])
    ELSE Fail(st, "Overflow")

\* dec_ptr with a saturating subtraction in place of the checked one
dec_ptr_saturating(st, by) ==
    IF st.ptr - by >= 0 THEN Done([st EXCEPT !.ptr = st.ptr - by])
    ELSE Fail([st EXCEPT !.ptr = 0], "Underflow")

dec_ptr(st, by) ==
    IF st.ptr - by >= 0 THEN Done([st EXCEPT !.ptr = st.ptr - by])
    ELSE Fail(st, "Underflow")

jump_forward(st) == get(st) = ZERO

jump_backward(st) == get(st) # ZERO

\* the cell c + (by * diff), the product truncated to the cell width
cell_add(c, by, diff, w) ==
    LET lo == by[2] * diff
        hi == by[1] * diff + (lo \div Limb)
    IN  wrapping_add(c, <<IF w = 32 THEN hi % Limb ELSE 0, lo % Limb>>, w)

RECURSIVE mul_apply(_, _, _, _, _)
mul_apply(st, by, operators, k, w) ==
    IF k > Len(operators) THEN st
    ELSE LET idx == st.ptr + operators[k][1]
         IN  mul_apply([st EXCEPT !.cells[idx + 1] = cell_add(@, by, operators[k][2], w)],
                       by, operators, k + 1, w)

\* mul zeroing the head before it looks at the bounds
mul_zero_first(st, bounds, operators, w) ==
    IF st.ptr + bounds[1] < 0 THEN Fail(zero(st), "Underflow")
    ELSE IF st.ptr + bounds[2] < 0 THEN Fail(zero(st), "Underflow")
    ELSE IF ~(st.ptr + bounds[1] < Len(st.cells)) THEN Fail(zero(st), "Overflow")
    ELSE IF ~(st.ptr + bounds[2] < Len(st.cells)) THEN Fail(zero(st), "Overflow")
    ELSE Done(mul_apply(zero(st), get(st), operators, 1, w))

\* bounds is <<start, end>>, operators a sequence of <<offset, change>>
mul(st, bounds, operators, w) ==
    IF st.ptr + bounds[1] < 0 THEN Fail(st, "Underflow")
    ELSE IF st.ptr + bounds[2] < 0 THEN Fail(st, "Underflow")
    ELSE IF ~(st.ptr + bounds[1] < Len(st.cells)) THEN Fail(st, "Overflow")
    ELSE IF ~(st.ptr + bounds[2] < Len(st.cells)) THEN Fail(st, "Overflow")
    ELSE Done(mul_apply(zero(st), get(st), operators, 1, w))

-----------------------------------------------------------------------------
(* ir.rs: Token, ITree and the rewrites *)

Tok(t, n) == [t |-> t, n |-> n]

as_u32(n) == ((n \div Limb) % Limb) * Limb + (n % Limb)

valid(data) == SelectSeq(data, LAMBDA b : b \in Alphabet)

\* the length of the run of bytes equal to v[i] that starts at v[i]
ByteRun(v, i) ==
    LET len == Len(v)
        stop == {j \in i..len : IF j = len THEN TRUE ELSE v[j + 1] # v[i]}
    IN  (CHOOSE j \in stop : \A k \in stop : j <= k) - i + 1

RECURSIVE parse_from(_, _)
parse_from(v, i) ==
    IF i > Len(v) THEN <<>>
    ELSE CASE v[i] = "." -> <<Tok("Write", 0)>> \o parse_from(v, i + 1)
           [] v[i] = "," -> <<Tok("Read", 0)>> \o parse_from(v, i + 1)
           [] v[i] = "[" ->
                IF i + 2 <= Len(v) /\ v[i + 1] \in {"+", "-"} /\ v[i + 2] = "]"
                THEN <<Tok("Zero", 0)>> \o parse_from(v, i + 3)
                ELSE <<Tok("LStart", 0)>> \o parse_from(v, i + 1)
           [] v[i] = "]" -> <<Tok("LEnd", 0)>> \o parse_from(v, i + 1)
           [] OTHER ->
                LET count == ByteRun(v, i)
                    tok == CASE v[i] = "+" -> Tok("Inc", as_u32(count))
                             [] v[i] = "-" -> Tok("Dec", as_u32(count))
                             [] v[i] = ">" -> Tok("IncPtr", count)
                             [] v[i] = "<" -> Tok("DecPtr", count)
                IN  <<tok>> \o parse_from(v, i + count)

Token_parse(data) == parse_from(valid(data), 1)

\* ITree nodes: n is the operand of Inc/Dec/IncPtr/DecPtr, kids the children of
\* Loop/If/WriteLoop, range and args the recipe of Mul
Node(t, n, kids, range, args) == [t |-> t, n |-> n, kids |-> kids, range |-> range, args |-> args]
Leaf(t, n) == Node(t, n, <<>>, <<0, 0>>, <<>>)
Branch(t, kids) == Node(t, 0, kids, <<0, 0>>, <<>>)

\* to_tree from token i with `open` loops entered: the nodes of the current
\* frame, the token after it, and the error met
RECURSIVE tree_from(_, _, _)
tree_from(this, i, open) ==
    IF i > Len(this)
    THEN [nodes |-> <<>>, next |-> i, err |-> IF open > 0 THEN "LoopCountMismatch" ELSE "none"]
    ELSE IF this[i].t = "LEnd"
    THEN [nodes |-> <<>>, next |-> i + 1,
          err |-> IF open = 0 THEN "LoopEndBeforeLoopStart" ELSE "none"]
    ELSE IF this[i].t = "LStart"
    THEN LET body == tree_from(this, i + 1, open + 1)
         IN  IF body.err # "none" THEN body
             ELSE LET rest == tree_from(this, body.next, open)
                  IN  [rest EXCEPT !.nodes = <<Branch("Loop", body.nodes)>> \o @]
    ELSE LET rest == tree_from(this, i + 1, open)
         IN  [rest EXCEPT !.nodes = <<Leaf(this[i].t, this[i].n)>> \o @]

to_tree(this) ==
    LET r == tree_from(this, 1, 0)
    IN  IF r.err # "none" THEN CompError(r.err) ELSE Compiled(r.nodes)

terminates(node) == node.t \notin {"Loop", "WriteLoop"}

\* zero_in_loop accepting a single Inc or Dec of any count
zero_in_loop_any_count(this) ==
    Len(this) = 1 /\ this[1].t \in {"Inc", "Dec"}

zero_in_loop(this) ==
    Len(this) = 1 /\ this[1].t \in {"Inc", "Dec"} /\ this[1].n = 1

RECURSIVE terminating_nested_len(_)
RECURSIVE nested_sum(_, _)
nested_sum(this, k) ==
    IF k > Len(this) THEN 0
    ELSE (IF this[k].t = "If" THEN terminating_nested_len(this[k].kids) ELSE 0)
         + nested_sum(this, k + 1)
terminating_nested_len(this) == Len(this) + nested_sum(this, 1)

BUF == 32

is_writeloop(this) ==
    /\ terminating_nested_len(this) < BUF
    /\ \A k \in 1..Len(this) : terminates(this[k]) /\ this[k].t # "Read"
    /\ \E k \in 1..Len(this) : this[k].t = "Write"

Z_OFFSET == 32

MINIVM_LEN == 64

\* minivm_walk keeping bounds.start at 0
RECURSIVE minivm_walk_end_only(_, _, _, _, _)
minivm_walk_end_only(this, k, minivm, idx, bounds) ==
    IF k > Len(this) THEN [ok |-> TRUE, minivm |-> minivm, idx |-> idx, bounds |-> bounds]
    ELSE LET node == this[k]
             no == [ok |-> FALSE, minivm |-> minivm, idx |-> idx, bounds |-> bounds]
         IN  CASE node.t = "Inc" ->
                    minivm_walk_end_only(this, k + 1, [minivm EXCEPT ![idx] = @ + node.n], idx, bounds)
               [] node.t = "Dec" ->
                    minivm_walk_end_only(this, k + 1, [minivm EXCEPT ![idx] = @ - node.n], idx, bounds)
               [] node.t = "IncPtr" ->
                    IF idx + node.n < MINIVM_LEN
                    THEN minivm_walk_end_only(this, k + 1, minivm, idx + node.n,
                             <<bounds[1], IF idx + node.n - Z_OFFSET > bounds[2]
                                          THEN idx + node.n - Z_OFFSET ELSE bounds[2]>>)
                    ELSE no
               [] node.t = "DecPtr" ->
                    IF idx - node.n >= 0
                    THEN minivm_walk_end_only(this, k + 1, minivm, idx - node.n,
                             bounds)
                    ELSE no
               [] OTHER -> no

\* as_multiply's walk over the body from node k: the scratch cells, the head
\* index and the bounds so far; ok is FALSE once a node disqualifies the body
RECURSIVE minivm_walk(_, _, _, _, _)
minivm_walk(this, k, minivm, idx, bounds) ==
    IF k > Len(this) THEN [ok |-> TRUE, minivm |-> minivm, idx |-> idx, bounds |-> bounds]
    ELSE LET node == this[k]
             no == [ok |-> FALSE, minivm |-> minivm, idx |-> idx, bounds |-> bounds]
         IN  CASE node.t = "Inc" ->
                    minivm_walk(this, k + 1, [minivm EXCEPT ![idx] = @ + node.n], idx, bounds)
               [] node.t = "Dec" ->
                    minivm_walk(this, k + 1, [minivm EXCEPT ![idx] = @ - node.n], idx, bounds)
               [] node.t = "IncPtr" ->
                    IF idx + node.n < MINIVM_LEN
                    THEN minivm_walk(this, k + 1, minivm, idx + node.n,
                             <<bounds[1], IF idx + node.n - Z_OFFSET > bounds[2]
                                          THEN idx + node.n - Z_OFFSET ELSE bounds[2]>>)
                    ELSE no
               [] node.t = "DecPtr" ->
                    IF idx - node.n >= 0
                    THEN minivm_walk(this, k + 1, minivm, idx - node.n,
                             <<IF idx - node.n - Z_OFFSET < bounds[1]
                               THEN idx - node.n - Z_OFFSET ELSE bounds[1], bounds[2]>>)
                    ELSE no
               [] OTHER -> no

\* the MulArgs of the nonzero scratch cells other than the head, by rising index
RECURSIVE mul_args(_, _)
mul_args(minivm, i) ==
    IF i >= MINIVM_LEN THEN <<>>
    ELSE (IF minivm[i] # 0 /\ i # Z_OFFSET THEN <<<<i - Z_OFFSET, minivm[i]>>>> ELSE <<>>)
         \o mul_args(minivm, i + 1)

\* as_multiply without the test that the head is back at Z_OFFSET
as_multiply_unreturned(this) ==
    LET r == minivm_walk(this, 1, [i \in 0..(MINIVM_LEN - 1) |-> 0], Z_OFFSET, <<0, 0>>)
    IN  IF r.ok /\ r.minivm[Z_OFFSET] = -1
        THEN [ok |-> TRUE, range |-> r.bounds, args |-> mul_args(r.minivm, 0)]
        ELSE [ok |-> FALSE, range |-> <<0, 0>>, args |-> <<>>]

as_multiply(this) ==
    LET r == minivm_walk(this, 1, [i \in 0..(MINIVM_LEN - 1) |-> 0], Z_OFFSET, <<0, 0>>)
    IN  IF r.ok /\ r.idx = Z_OFFSET /\ r.minivm[Z_OFFSET] = -1
        THEN [ok |-> TRUE, range |-> r.bounds, args |-> mul_args(r.minivm, 0)]
        ELSE [ok |-> FALSE, range |-> <<0, 0>>, args |-> <<>>]

RECURSIVE rewrite_zero(_)
rewrite_zero(tree) ==
    [k \in 1..Len(tree) |->
        IF tree[k].t = "Loop"
        THEN IF zero_in_loop(tree[k].kids) THEN Leaf("Zero", 0)
             ELSE [tree[k] EXCEPT !.kids = rewrite_zero(@)]
        ELSE tree[k]]

RECURSIVE find_if_conditions(_)
find_if_conditions(tree) ==
    [k \in 1..Len(tree) |->
        IF tree[k].t = "Loop"
        THEN LET children == find_if_conditions(tree[k].kids)
             IN  IF children # <<>> /\ children[Len(children)].t = "Zero"
                 THEN Branch("If", children)
                 ELSE [tree[k] EXCEPT !.kids = children]
        ELSE tree[k]]

RECURSIVE rewrite_multiply(_)
rewrite_multiply(tree) ==
    [k \in 1..Len(tree) |->
        IF tree[k].t = "Loop"
        THEN LET mulargs == as_multiply(tree[k].kids)
             IN  IF mulargs.ok THEN Node("Mul", 0, <<>>, mulargs.range, mulargs.args)
                 ELSE [tree[k] EXCEPT !.kids = rewrite_multiply(@)]
        ELSE tree[k]]

RECURSIVE rewrite_write_loops(_)
rewrite_write_loops(tree) ==
    [k \in 1..Len(tree) |->
        IF tree[k].t = "Loop"
        THEN IF is_writeloop(tree[k].kids) THEN Branch("WriteLoop", tree[k].kids)
             ELSE [tree[k] EXCEPT !.kids = rewrite_write_loops(@)]
        ELSE tree[k]]

\* MultiplyCache::insert: the index of dm in the table, appended when new
cache_index(table, dm) ==
    IF \E j \in 1..Len(table) : table[j] = dm
    THEN (CHOOSE j \in 1..Len(table) : table[j] = dm) - 1
    ELSE Len(table)

\* insert pushing the recipe whether or not the table holds it
cache_insert_pushed(table, dm) == Append(table, dm)

cache_insert(table, dm) ==
    IF \E j \in 1..Len(table) : table[j] = dm THEN table ELSE Append(table, dm)

Lowered(code, table) == [code |-> code, table |-> table]

\* synth_inner ending every Loop with an LEnd of its own
RECURSIVE synth_inner_separate(_, _, _, _)
synth_inner_separate(this, k, code, table) ==
    IF k > Len(this) THEN Lowered(code, table)
    ELSE LET node == this[k]
             s_idx == Len(code)
         IN  CASE node.t \in {"Zero", "Read", "Write"} ->
                    synth_inner_separate(this, k + 1, Append(code, Ins(node.t, 0)), table)
               [] node.t \in {"Inc", "Dec"} ->
                    synth_inner_separate(this, k + 1, Append(code, Ins(node.t, node.n)), table)
               [] node.t \in {"IncPtr", "DecPtr"} ->
                    synth_inner_separate(this, k + 1, Append(code, Ins(node.t, as_u32(node.n))), table)
               [] node.t = "Mul" ->
                    LET dm == [range |-> node.range, args |-> node.args]
                    IN  synth_inner_separate(this, k + 1,
                            Append(code, Ins("Multiply", cache_index(table, dm))),
                            cache_insert(table, dm))
               [] node.t = "Loop" ->
                    LET body == synth_inner_separate(node.kids, 1, Append(code, Ins("LStart", 0)), table)
                        shared == FALSE
                        e_idx == IF shared THEN Len(body.code) - 1 ELSE Len(body.code)
                        ended == IF shared THEN body.code
                                 ELSE Append(body.code, Ins("LEnd", s_idx))
                    IN  synth_inner_separate(this, k + 1,
                            [ended EXCEPT ![s_idx + 1] = Ins("LStart", e_idx)], body.table)
               [] node.t = "WriteLoop" ->
                    LET body == synth_inner_separate(node.kids, 1, Append(code, Ins("WLStart", 0)), table)
                        e_idx == Len(body.code)
                    IN  synth_inner_separate(this, k + 1,
                            [Append(body.code, Ins("WLEnd", s_idx))
                                EXCEPT ![s_idx + 1] = Ins("WLStart", e_idx)],
                            body.table)
               [] node.t = "If" ->
                    LET body == synth_inner_separate(node.kids, 1, Append(code, Ins("LStart", 0)), table)
                        e_idx == Len(body.code) - 1
                    IN  synth_inner_separate(this, k + 1,
                            IF e_idx = s_idx THEN code
                            ELSE [body.code EXCEPT ![s_idx + 1] = Ins("LStart", e_idx)],
                            body.table)

\* synth_inner pointing the LStart of an If at the first instruction of the body
RECURSIVE synth_inner_if_first(_, _, _, _)
synth_inner_if_first(this, k, code, table) ==
    IF k > Len(this) THEN Lowered(code, table)
    ELSE LET node == this[k]
             s_idx == Len(code)
         IN  CASE node.t \in {"Zero", "Read", "Write"} ->
                    synth_inner_if_first(this, k + 1, Append(code, Ins(node.t, 0)), table)
               [] node.t \in {"Inc", "Dec"} ->
                    synth_inner_if_first(this, k + 1, Append(code, Ins(node.t, node.n)), table)
               [] node.t \in {"IncPtr", "DecPtr"} ->
                    synth_inner_if_first(this, k + 1, Append(code, Ins(node.t, as_u32(node.n))), table)
               [] node.t = "Mul" ->
                    LET dm == [range |-> node.range, args |-> node.args]
                    IN  synth_inner_if_first(this, k + 1,
                            Append(code, Ins("Multiply", cache_index(table, dm))),
                            cache_insert(table, dm))
               [] node.t = "Loop" ->
                    LET body == synth_inner_if_first(node.kids, 1, Append(code, Ins("LStart", 0)), table)
                        shared == body.code[Len(body.code)].op = "LEnd"
                        e_idx == IF shared THEN Len(body.code) - 1 ELSE Len(body.code)
                        ended == IF shared THEN body.code
                                 ELSE Append(body.code, Ins("LEnd", s_idx))
                    IN  synth_inner_if_first(this, k + 1,
                            [ended EXCEPT ![s_idx + 1] = Ins("LStart", e_idx)], body.table)
               [] node.t = "WriteLoop" ->
                    LET body == synth_inner_if_first(node.kids, 1, Append(code, Ins("WLStart", 0)), table)
                        e_idx == Len(body.code)
                    IN  synth_inner_if_first(this, k + 1,
                            [Append(body.code, Ins("WLEnd", s_idx))
                                EXCEPT ![s_idx + 1] = Ins("WLStart", e_idx)],
                            body.table)
               [] node.t = "If" ->
                    LET body == synth_inner_if_first(node.kids, 1, Append(code, Ins("LStart", 0)), table)
                        e_idx == Len(body.code) - 1
                    IN  synth_inner_if_first(this, k + 1,
                            IF e_idx = s_idx THEN code
                            ELSE [body.code EXCEPT ![s_idx + 1] = Ins("LStart", s_idx + 1)],
                            body.table)

\* synth_inner giving the shared LEnd the start of the outer loop
RECURSIVE synth_inner_outer_end(_, _, _, _)
synth_inner_outer_end(this, k, code, table) ==
    IF k > Len(this) THEN Lowered(code, table)
    ELSE LET node == this[k]
             s_idx == Len(code)
         IN  CASE node.t \in {"Zero", "Read", "Write"} ->
                    synth_inner_outer_end(this, k + 1, Append(code, Ins(node.t, 0)), table)
               [] node.t \in {"Inc", "Dec"} ->
                    synth_inner_outer_end(this, k + 1, Append(code, Ins(node.t, node.n)), table)
               [] node.t \in {"IncPtr", "DecPtr"} ->
                    synth_inner_outer_end(this, k + 1, Append(code, Ins(node.t, as_u32(node.n))), table)
               [] node.t = "Mul" ->
                    LET dm == [range |-> node.range, args |-> node.args]
                    IN  synth_inner_outer_end(this, k + 1,
                            Append(code, Ins("Multiply", cache_index(table, dm))),
                            cache_insert(table, dm))
               [] node.t = "Loop" ->
                    LET body == synth_inner_outer_end(node.kids, 1, Append(code, Ins("LStart", 0)), table)
                        shared == body.code[Len(body.code)].op = "LEnd"
                        e_idx == IF shared THEN Len(body.code) - 1 ELSE Len(body.code)
                        ended == IF shared
                                 THEN [body.code EXCEPT ![Len(body.code)] = Ins("LEnd", s_idx)]
                                 ELSE Append(body.code, Ins("LEnd", s_idx))
                    IN  synth_inner_outer_end(this, k + 1,
                            [ended EXCEPT ![s_idx + 1] = Ins("LStart", e_idx)], body.table)
               [] node.t = "WriteLoop" ->
                    LET body == synth_inner_outer_end(node.kids, 1, Append(code, Ins("WLStart", 0)), table)
                        e_idx == Len(body.code)
                    IN  synth_inner_outer_end(this, k + 1,
                            [Append(body.code, Ins("WLEnd", s_idx))
                                EXCEPT ![s_idx + 1] = Ins("WLStart", e_idx)],
                            body.table)
               [] node.t = "If" ->
                    LET body == synth_inner_outer_end(node.kids, 1, Append(code, Ins("LStart", 0)), table)
                        e_idx == Len(body.code) - 1
                    IN  synth_inner_outer_end(this, k + 1,
                            IF e_idx = s_idx THEN code
                            ELSE [body.code EXCEPT ![s_idx + 1] = Ins("LStart", e_idx)],
                            body.table)

RECURSIVE synth_inner(_, _, _, _)
synth_inner(this, k, code, table) ==
    IF k > Len(this) THEN Lowered(code, table)
    ELSE LET node == this[k]
             s_idx == Len(code)
         IN  CASE node.t \in {"Zero", "Read", "Write"} ->
                    synth_inner(this, k + 1, Append(code, Ins(node.t, 0)), table)
               [] node.t \in {"Inc", "Dec"} ->
                    synth_inner(this, k + 1, Append(code, Ins(node.t, node.n)), table)
               [] node.t \in {"IncPtr", "DecPtr"} ->
                    synth_inner(this, k + 1, Append(code, Ins(node.t, as_u32(node.n))), table)
               [] node.t = "Mul" ->
                    LET dm == [range |-> node.range, args |-> node.args]
                    IN  synth_inner(this, k + 1,
                            Append(code, Ins("Multiply", cache_index(table, dm))),
                            cache_insert(table, dm))
               [] node.t = "Loop" ->
                    LET body == synth_inner(node.kids, 1, Append(code, Ins("LStart", 0)), table)
                        shared == body.code[Len(body.code)].op = "LEnd"
                        e_idx == IF shared THEN Len(body.code) - 1 ELSE Len(body.code)
                        ended == IF shared THEN body.code
                                 ELSE Append(body.code, Ins("LEnd", s_idx))
                    IN  synth_inner(this, k + 1,
                            [ended EXCEPT ![s_idx + 1] = Ins("LStart", e_idx)], body.table)
               [] node.t = "WriteLoop" ->
                    LET body == synth_inner(node.kids, 1, Append(code, Ins("WLStart", 0)), table)
                        e_idx == Len(body.code)
                    IN  synth_inner(this, k + 1,
                            [Append(body.code, Ins("WLEnd", s_idx))
                                EXCEPT ![s_idx + 1] = Ins("WLStart", e_idx)],
                            body.table)
               [] node.t = "If" ->
                    LET body == synth_inner(node.kids, 1, Append(code, Ins("LStart", 0)), table)
                        e_idx == Len(body.code) - 1
                    IN  synth_inner(this, k + 1,
                            IF e_idx = s_idx THEN code
                            ELSE [body.code EXCEPT ![s_idx + 1] = Ins("LStart", e_idx)],
                            body.table)

synthesize(this) == synth_inner(this, 1, <<>>, <<>>)

\* the four rewrites in the order the documentation fixes, then the lowering
ir_compile(data) ==
    LET tree == to_tree(Token_parse(data))
    IN  IF tree.err # "none" THEN [err |-> tree.err, code |-> <<>>, table |-> <<>>]
        ELSE LET low == synthesize(rewrite_write_loops(find_if_conditions(
                            rewrite_multiply(rewrite_zero(tree.code)))))
             IN  [err |-> "none", code |-> low.code, table |-> low.table]

\* BfOptimizable::truncate_from: the u32 operand cut to the cell width
truncate_from(by, w) == CellOf(by, w)

(* InterpreterStream::run: the tape state st with the locals of run *)

IS_new(st) ==
    [ st |-> st, idx |-> 0, wbuf |-> [i \in 1..BUF |-> 0], cursor |-> 0,
      wloop |-> FALSE, res |-> "run" ]

\* InterpreterStream::write
IS_write(r) ==
    LET full == r.cursor = Len(r.wbuf)
        wr1 == IF full THEN r.st.wr \o r.wbuf ELSE r.st.wr
        cur == IF full THEN 0 ELSE r.cursor
    IN  [r EXCEPT !.st.wr = wr1,
                  !.wbuf[cur + 1] = truncate_u8(get(r.st)),
                  !.cursor = cur + 1]

\* softflush that leaves the cursor where it was
softflush_cursor_kept(r) ==
    [r EXCEPT !.st.wr = @ \o SubSeq(r.wbuf, 1, r.cursor)]

softflush(r) ==
    [r EXCEPT !.st.wr = @ \o SubSeq(r.wbuf, 1, r.cursor), !.cursor = 0]

\* the loop of InterpreterStream::run reporting an error at the index after the
\* instruction that failed
IS_iter_idx_after(code, table, r, w) ==
    IF ~(r.idx < Len(code)) THEN [r EXCEPT !.res = "Ok"]
    ELSE LET i == code[r.idx + 1]
             next(q) == [q EXCEPT !.idx = @ + 1]
             onstate(x) == IF x.err # "none" THEN next([r EXCEPT !.st = x.e, !.res = x.err])
                           ELSE next([r EXCEPT !.st = x.e])
         IN  CASE i.op = "Zero" -> onstate(Done(zero(r.st)))
               [] i.op = "Inc" -> onstate(Done(inc(r.st, truncate_from(i.arg, w), w)))
               [] i.op = "Dec" -> onstate(Done(dec(r.st, truncate_from(i.arg, w), w)))
               [] i.op = "IncPtr" -> onstate(inc_ptr(r.st, i.arg))
               [] i.op = "DecPtr" -> onstate(dec_ptr(r.st, i.arg))
               [] i.op = "WLStart" ->
                    IF jump_forward(r.st) THEN next([r EXCEPT !.idx = i.arg])
                    ELSE next([r EXCEPT !.wloop = TRUE])
               [] i.op = "WLEnd" ->
                    IF jump_backward(r.st) THEN next([r EXCEPT !.idx = i.arg])
                    ELSE next(softflush([r EXCEPT !.wloop = FALSE]))
               [] i.op = "LStart" ->
                    IF jump_forward(r.st) THEN next([r EXCEPT !.idx = i.arg]) ELSE next(r)
               [] i.op = "LEnd" ->
                    IF jump_backward(r.st) THEN next([r EXCEPT !.idx = i.arg]) ELSE next(r)
               [] i.op = "Read" -> onstate(state_read(r.st))
               [] i.op = "Write" ->
                    IF r.wloop THEN next(IS_write(r)) ELSE onstate(state_write(r.st))
               [] i.op = "Multiply" ->
                    LET dm == table[i.arg + 1]
                    IN  onstate(mul(r.st, dm.range, dm.args, w))

\* one pass of the while loop of InterpreterStream::run, the loop test included
IS_iter(code, table, r, w) ==
    IF ~(r.idx < Len(code)) THEN [r EXCEPT !.res = "Ok"]
    ELSE LET i == code[r.idx + 1]
             next(q) == [q EXCEPT !.idx = @ + 1]
             onstate(x) == IF x.err # "none" THEN [r EXCEPT !.st = x.e, !.res = x.err]
                           ELSE next([r EXCEPT !.st = x.e])
         IN  CASE i.op = "Zero" -> onstate(Done(zero(r.st)))
               [] i.op = "Inc" -> onstate(Done(inc(r.st, truncate_from(i.arg, w), w)))
               [] i.op = "Dec" -> onstate(Done(dec(r.st, truncate_from(i.arg, w), w)))
               [] i.op = "IncPtr" -> onstate(inc_ptr(r.st, i.arg))
               [] i.op = "DecPtr" -> onstate(dec_ptr(r.st, i.arg))
               [] i.op = "WLStart" ->
                    IF jump_forward(r.st) THEN next([r EXCEPT !.idx = i.arg])
                    ELSE next([r EXCEPT !.wloop = TRUE])
               [] i.op = "WLEnd" ->
                    IF jump_backward(r.st) THEN next([r EXCEPT !.idx = i.arg])
                    ELSE next(softflush([r EXCEPT !.wloop = FALSE]))
               [] i.op = "LStart" ->
                    IF jump_forward(r.st) THEN next([r EXCEPT !.idx = i.arg]) ELSE next(r)
               [] i.op = "LEnd" ->
                    IF jump_backward(r.st) THEN next([r EXCEPT !.idx = i.arg]) ELSE next(r)
               [] i.op = "Read" -> onstate(state_read(r.st))
               [] i.op = "Write" ->
                    IF r.wloop THEN next(IS_write(r)) ELSE onstate(state_write(r.st))
               [] i.op = "Multiply" ->
                    LET dm == table[i.arg + 1]
                    IN  onstate(mul(r.st, dm.range, dm.args, w))

-----------------------------------------------------------------------------
(* minibit.rs: the BTape byte code *)

\* Instr as u8
I_Inc == 0
I_Dec == 1
I_IncPtr == 2
I_DecPtr == 3
I_LStart == 4
I_LEnd == 5
I_Zero == 6
I_Wild == 7

\* WildArgs as u8
W_Read == 0
W_Write == 1
W_IncPtrMany == 2
W_DecPtrMany == 3

\* Instr::with: (self & 7) << 5 | (operand & 31)
with(instr, operand) == (instr % 8) * 32 + (operand % 32)

wild(args) == with(I_Wild, args)

\* Instr::decode: <<b >> 5, b & 31>>
decode(b) == <<b \div 32, b % 32>>

RECURSIVE to_le_bytes(_, _)
to_le_bytes(n, k) == IF k = 0 THEN <<>> ELSE <<n % 256>> \o to_le_bytes(n \div 256, k - 1)

RECURSIVE from_le_bytes(_)
from_le_bytes(bytes) ==
    IF bytes = <<>> THEN 0 ELSE Head(bytes) + 256 * from_le_bytes(Tail(bytes))

\* a chunk of 32 written with operand 32, which `with` masks to 0
Chunks_with_32(instr, chunks) == [j \in 1..chunks |-> with(instr, 32)]

Chunks(instr, chunks) == [j \in 1..chunks |-> with(instr, 31)]

RECURSIVE rewrite_from(_, _)
rewrite_from(v, i) ==
    IF i > Len(v) THEN <<>>
    ELSE CASE v[i] = "," -> <<wild(W_Read)>> \o rewrite_from(v, i + 1)
           [] v[i] = "." -> <<wild(W_Write)>> \o rewrite_from(v, i + 1)
           [] v[i] = "[" ->
                IF i + 2 <= Len(v) /\ v[i + 1] \in {"+", "-"} /\ v[i + 2] = "]"
                THEN <<with(I_Zero, 0)>> \o rewrite_from(v, i + 3)
                ELSE <<with(I_LStart, 0)>> \o rewrite_from(v, i + 1)
           [] v[i] = "]" -> <<with(I_LEnd, 0)>> \o rewrite_from(v, i + 1)
           [] OTHER ->
                LET count == ByteRun(v, i)
                    instr == CASE v[i] = "+" -> I_Inc
                               [] v[i] = "-" -> I_Dec
                               [] v[i] = ">" -> I_IncPtr
                               [] v[i] = "<" -> I_DecPtr
                    chunks == count \div 32
                    last == count % 32
                    bytes ==
                        IF chunks >= 1 /\ instr \in {I_IncPtr, I_DecPtr}
                        THEN <<wild(IF instr = I_IncPtr THEN W_IncPtrMany ELSE W_DecPtrMany)>>
                                 \o to_le_bytes(count, 8)
                        ELSE Chunks(instr, chunks)
                                 \o (IF last # 0 THEN <<with(instr, last - 1)>> ELSE <<>>)
                IN  bytes \o rewrite_from(v, i + count)

rewrite(data) == rewrite_from(valid(data), 1)

IsMany(b) == decode(b)[1] = I_Wild /\ decode(b)[2] \in {W_IncPtrMany, W_DecPtrMany}

\* insert_loop reading the eight count bytes of IncPtrMany / DecPtrMany as
\* instructions
RECURSIVE insert_loop_from_unskipped(_, _, _, _)
insert_loop_from_unskipped(bytes, idx, stack, oversized) ==
    IF idx >= Len(bytes)
    THEN [err |-> IF stack # <<>> THEN "LoopCountMismatch" ELSE "none",
          code |-> bytes, map |-> oversized]
    ELSE LET d == decode(bytes[idx + 1])
         IN  IF d[1] = I_LStart
             THEN insert_loop_from_unskipped(bytes, idx + 1, Append(stack, idx), oversized)
             ELSE IF d[1] = I_LEnd
             THEN IF stack = <<>>
                  THEN [err |-> "LoopEndBeforeLoopStart", code |-> bytes, map |-> oversized]
                  ELSE LET v == stack[Len(stack)]
                           distance == idx - v
                           rest == SubSeq(stack, 1, Len(stack) - 1)
                       IN  IF distance <= 31
                           THEN insert_loop_from_unskipped(
                                    [bytes EXCEPT ![v + 1] = with(I_LStart, distance),
                                                  ![idx + 1] = with(I_LEnd, distance)],
                                    idx + 1, rest, oversized)
                           ELSE insert_loop_from_unskipped(
                                    [bytes EXCEPT ![v + 1] = with(I_LStart, 0),
                                                  ![idx + 1] = with(I_LEnd, 0)],
                                    idx + 1, rest, oversized \cup {<<v, idx>>, <<idx, v>>})
             ELSE IF IsMany(bytes[idx + 1])
             THEN insert_loop_from_unskipped(bytes, idx + 1, stack, oversized)
             ELSE insert_loop_from_unskipped(bytes, idx + 1, stack, oversized)

\* insert_loop from byte idx: the stream with the jump distances written, the
\* oversized map (a set of <<key, value>> pairs), and the error
RECURSIVE insert_loop_from(_, _, _, _)
insert_loop_from(bytes, idx, stack, oversized) ==
    IF idx >= Len(bytes)
    THEN [err |-> IF stack # <<>> THEN "LoopCountMismatch" ELSE "none",
          code |-> bytes, map |-> oversized]
    ELSE LET d == decode(bytes[idx + 1])
         IN  IF d[1] = I_LStart
             THEN insert_loop_from(bytes, idx + 1, Append(stack, idx), oversized)
             ELSE IF d[1] = I_LEnd
             THEN IF stack = <<>>
                  THEN [err |-> "LoopEndBeforeLoopStart", code |-> bytes, map |-> oversized]
                  ELSE LET v == stack[Len(stack)]
                           distance == idx - v
                           rest == SubSeq(stack, 1, Len(stack) - 1)
                       IN  IF distance <= 31
                           THEN insert_loop_from(
                                    [bytes EXCEPT ![v + 1] = with(I_LStart, distance),
                                                  ![idx + 1] = with(I_LEnd, distance)],
                                    idx + 1, rest, oversized)
                           ELSE insert_loop_from(
                                    [bytes EXCEPT ![v + 1] = with(I_LStart, 0),
                                                  ![idx + 1] = with(I_LEnd, 0)],
                                    idx + 1, rest, oversized \cup {<<v, idx>>, <<idx, v>>})
             ELSE IF IsMany(bytes[idx + 1])
             THEN insert_loop_from(bytes, idx + 9, stack, oversized)
             ELSE insert_loop_from(bytes, idx + 1, stack, oversized)

\* insert_loop without the `oversized.insert(idx, v)` of the backward entry
insert_loop_forward_only(bytes) ==
    LET r == insert_loop_from(bytes, 0, <<>>, {})
    IN  [r EXCEPT !.map = {kv \in @ : kv[1] < kv[2]}]

insert_loop(bytes) == insert_loop_from(bytes, 0, <<>>, {})

from_bf(data) == insert_loop(rewrite(data))

\* self.1[&idx]
Lookup(map, key) == (CHOOSE kv \in map : kv[1] = key)[2]

BT_new(st) == [st |-> st, idx |-> 0, res |-> "run"]

\* BT_iter without the `idx += 8` after a ...Many move
BT_iter_unskipped(code, map, r, w) ==
    IF ~(r.idx < Len(code)) THEN [r EXCEPT !.res = "Ok"]
    ELSE LET d == decode(code[r.idx + 1])
             by == d[2]
             next(q) == [q EXCEPT !.idx = @ + 1]
             onstate(x, skip) ==
                 IF x.err # "none" THEN [r EXCEPT !.st = x.e, !.res = x.err]
                 ELSE [r EXCEPT !.st = x.e, !.idx = @ + skip + 1]
             operand == from_le_bytes(SubSeq(code, r.idx + 2, r.idx + 9))
         IN  CASE d[1] = I_Zero -> onstate(Done(zero(r.st)), 0)
               [] d[1] = I_Inc ->
                    onstate(Done(inc(r.st, wrapping_add(from_u8(by), from_u8(1), w), w)), 0)
               [] d[1] = I_Dec ->
                    onstate(Done(dec(r.st, wrapping_add(from_u8(by), from_u8(1), w), w)), 0)
               [] d[1] = I_IncPtr -> onstate(inc_ptr(r.st, by + 1), 0)
               [] d[1] = I_DecPtr -> onstate(dec_ptr(r.st, by + 1), 0)
               [] d[1] = I_LStart ->
                    IF jump_forward(r.st)
                    THEN next([r EXCEPT !.idx = IF by # 0 THEN r.idx + by ELSE Lookup(map, r.idx)])
                    ELSE next(r)
               [] d[1] = I_LEnd ->
                    IF jump_backward(r.st)
                    THEN next([r EXCEPT !.idx = IF by # 0 THEN r.idx - by ELSE Lookup(map, r.idx)])
                    ELSE next(r)
               [] d[1] = I_Wild ->
                    CASE by = W_Read -> onstate(state_read(r.st), 0)
                      [] by = W_Write -> onstate(state_write(r.st), 0)
                      [] by = W_IncPtrMany -> onstate(inc_ptr(r.st, operand), 0)
                      [] by = W_DecPtrMany -> onstate(dec_ptr(r.st, operand), 0)

\* one pass of the while loop of BTapeStream::run, the loop test included
BT_iter(code, map, r, w) ==
    IF ~(r.idx < Len(code)) THEN [r EXCEPT !.res = "Ok"]
    ELSE LET d == decode(code[r.idx + 1])
             by == d[2]
             next(q) == [q EXCEPT !.idx = @ + 1]
             onstate(x, skip) ==
                 IF x.err # "none" THEN [r EXCEPT !.st = x.e, !.res = x.err]
                 ELSE [r EXCEPT !.st = x.e, !.idx = @ + skip + 1]
             operand == from_le_bytes(SubSeq(code, r.idx + 2, r.idx + 9))
         IN  CASE d[1] = I_Zero -> onstate(Done(zero(r.st)), 0)
               [] d[1] = I_Inc ->
                    onstate(Done(inc(r.st, wrapping_add(from_u8(by), from_u8(1), w), w)), 0)
               [] d[1] = I_Dec ->
                    onstate(Done(dec(r.st, wrapping_add(from_u8(by), from_u8(1), w), w)), 0)
               [] d[1] = I_IncPtr -> onstate(inc_ptr(r.st, by + 1), 0)
               [] d[1] = I_DecPtr -> onstate(dec_ptr(r.st, by + 1), 0)
               [] d[1] = I_LStart ->
                    IF jump_forward(r.st)
                    THEN next([r EXCEPT !.idx = IF by # 0 THEN r.idx + by ELSE Lookup(map, r.idx)])
                    ELSE next(r)
               [] d[1] = I_LEnd ->
                    IF jump_backward(r.st)
                    THEN next([r EXCEPT !.idx = IF by # 0 THEN r.idx - by ELSE Lookup(map, r.idx)])
                    ELSE next(r)
               [] d[1] = I_Wild ->
                    CASE by = W_Read -> onstate(state_read(r.st), 0)
                      [] by = W_Write -> onstate(state_write(r.st), 0)
                      [] by = W_IncPtrMany -> onstate(inc_ptr(r.st, operand), 8)
                      [] by = W_DecPtrMany -> onstate(dec_ptr(r.st, operand), 8)

-----------------------------------------------------------------------------
(* stupid.rs: the direct interpreter over the source bytes *)

\* the jump cache is a set of <<key, value>> pairs with at most one per key
Cached(cache, key) == \E kv \in cache : kv[1] = key

cache_put(cache, key, value) == {kv \in cache : kv[1] # key} \cup {<<key, value>>}

Jump(jump, cache, err) == [jump |-> jump, cache |-> cache, err |-> err]

RECURSIVE lstart_scan(_, _, _, _)
lstart_scan(input, cur, cache, iter) ==
    IF ~(cur < Len(input)) THEN Jump(0, cache, "LoopCountMismatch")
    ELSE IF input[cur + 1] = "[" THEN lstart_scan(input, cur + 1, cache, Append(iter, cur))
    ELSE IF input[cur + 1] = "]" /\ iter # <<>>
         THEN LET end == iter[Len(iter)]
                  c2 == cache_put(cache_put(cache, cur, end), end, cur)
              IN  IF Len(iter) = 1 THEN Jump(cur, c2, "none")
                  ELSE lstart_scan(input, cur + 1, c2, SubSeq(iter, 1, Len(iter) - 1))
    ELSE lstart_scan(input, cur + 1, cache, iter)

\* lstart_jump that takes a missing `]` for the end of the program
lstart_jump_to_end(input, cur, cache) ==
    IF Cached(cache, cur) THEN Jump(Lookup(cache, cur), cache, "none")
    ELSE LET j == lstart_scan(input, cur, cache, <<>>)
         IN  IF j.err # "none" THEN Jump(Len(input) - 1, j.cache, "none") ELSE j

lstart_jump(input, cur, cache) ==
    IF Cached(cache, cur) THEN Jump(Lookup(cache, cur), cache, "none")
    ELSE lstart_scan(input, cur, cache, <<>>)

\* the backward scan pairing a `[` with the first `]` it pushed instead of the
\* last
RECURSIVE lend_scan_oldest(_, _, _, _)
lend_scan_oldest(input, cur, cache, iter) ==
    LET b == input[cur + 1]
        matched == b = "[" /\ iter # <<>>
        end == iter[1]
        c2 == IF matched THEN cache_put(cache_put(cache, cur, end), end, cur) ELSE cache
        iter2 == IF b = "]" THEN Append(iter, cur)
                 ELSE IF matched THEN SubSeq(iter, 1, Len(iter) - 1) ELSE iter
    IN  IF matched /\ Len(iter) = 1 THEN Jump(cur, c2, "none")
        ELSE IF cur = 0 THEN Jump(0, c2, "LoopEndBeforeLoopStart")
        ELSE lend_scan_oldest(input, cur - 1, c2, iter2)

RECURSIVE lend_scan(_, _, _, _)
lend_scan(input, cur, cache, iter) ==
    LET b == input[cur + 1]
        matched == b = "[" /\ iter # <<>>
        end == iter[Len(iter)]
        c2 == IF matched THEN cache_put(cache_put(cache, cur, end), end, cur) ELSE cache
        iter2 == IF b = "]" THEN Append(iter, cur)
                 ELSE IF matched THEN SubSeq(iter, 1, Len(iter) - 1) ELSE iter
    IN  IF matched /\ Len(iter) = 1 THEN Jump(cur, c2, "none")
        ELSE IF cur = 0 THEN Jump(0, c2, "LoopEndBeforeLoopStart")
        ELSE lend_scan(input, cur - 1, c2, iter2)

lend_jump(input, cur, cache) ==
    IF Cached(cache, cur) THEN Jump(Lookup(cache, cur), cache, "none")
    ELSE lend_scan(input, cur, cache, <<>>)

\* stupid::BfState with the locals of run; res "idle" before run is called
stupid_new(n, input, rerr) ==
    [ ptr |-> 0, data |-> Tape(n), rd |-> input, rerr |-> rerr, wr |-> <<>>,
      flushed |-> 0, idx |-> 0, cache |-> {}, res |-> "idle" ]

stupid_inc_ptr_by(d, v) ==
    IF d.ptr + v >= Len(d.data) THEN Fail(d, "Overflow")
    ELSE Done([d EXCEPT !.ptr = d.ptr + v])

stupid_dec_ptr_by(d, v) ==
    IF d.ptr - v < 0 THEN Fail(d, "Underflow")
    ELSE Done([d EXCEPT !.ptr = d.ptr - v])

stupid_get(d) == d.data[d.ptr + 1]

stupid_set(d, c) == [d EXCEPT !.data[d.ptr + 1] = c]

stupid_write(d, v) == Done([d EXCEPT !.wr = Append(d.wr, v)])

stupid_read(d) ==
    LET f == [d EXCEPT !.flushed = Len(d.wr)]
    IN  IF d.rerr THEN [e |-> f, v |-> 0, err |-> "IOError"]
        ELSE IF d.rd = <<>> THEN [e |-> f, v |-> 0, err |-> "none"]
        ELSE [e |-> [f EXCEPT !.rd = Tail(d.rd)], v |-> Head(d.rd), err |-> "none"]

\* run up to its loop: the entry check
stupid_run_entry(d) ==
    IF d.ptr >= Len(d.data) THEN [d EXCEPT !.res = "InitOverflow"]
    ELSE [d EXCEPT !.res = "run"]

\* one pass of the while loop of run, the loop test and the final flush included
stupid_iter(input, d, w) ==
    IF ~(d.idx < Len(input)) THEN [d EXCEPT !.flushed = Len(d.wr), !.res = "Ok"]
    ELSE LET b == input[d.idx + 1]
             next(q) == [q EXCEPT !.idx = @ + 1]
             onstate(x) == IF x.err # "none" THEN [x.e EXCEPT !.res = x.err] ELSE next(x.e)
             onjump(j) == IF j.err # "none" THEN [d EXCEPT !.cache = j.cache, !.res = j.err]
                          ELSE next([d EXCEPT !.cache = j.cache, !.idx = j.jump])
         IN  CASE b = "+" -> next(stupid_set(d, wrapping_add(stupid_get(d), from_u8(1), w)))
               [] b = "-" -> next(stupid_set(d, wrapping_sub(stupid_get(d), from_u8(1), w)))
               [] b = ">" -> onstate(stupid_inc_ptr_by(d, 1))
               [] b = "<" -> onstate(stupid_dec_ptr_by(d, 1))
               [] b = "[" ->
                    IF stupid_get(d) = ZERO THEN onjump(lstart_jump(input, d.idx, d.cache))
                    ELSE next(d)
               [] b = "]" ->
                    IF stupid_get(d) # ZERO THEN onjump(lend_jump(input, d.idx, d.cache))
                    ELSE next(d)
               [] b = "," ->
                    LET r == stupid_read(d)
                    IN  IF r.err # "none" THEN [r.e EXCEPT !.res = r.err]
                        ELSE next(stupid_set(r.e, from_u8(r.v)))
               [] b = "." -> onstate(stupid_write(d, truncate_u8(stupid_get(d))))
               [] OTHER -> next(d)

-----------------------------------------------------------------------------
(* Programs and configurations explored *)

\* test_exec_env and the scenarios of the documentation, with loops that
\* count, write, read and run off either end of the tape
Curated ==
    { <<"+", "[", ">", "+", "]">>,
      <<"+", "[", "]">>,
      <<"+", "+", "[", ">", "+", "<", "-", "]", ">", ".">>,
      <<",", "+", ".">>,
      <<"+", "[", ".", ">", "+", "]">>,
      <<"+", ".", ",", ".", ">", ",", ".">>,
      <<"-", "[", "-", ".", "-", "]">>,
      <<"+", "[", "<", "+", ">", "-", "]">>,
      <<">", ">", "+", "<", "<", "<">>,
      <<"+", "+", ">", ">", ">">>,
      <<"-", "[", "+", "+", "]", ".">>,
      <<"+", "[", "-", ">", "+", "[", "-", "]", "<", "]", ".">> }

Inputs == {<<>>, <<32>>, <<255, 1>>}

Config(src, w, n, input, rerr) ==
    [src |-> src, w |-> w, n |-> n, input |-> input, rerr |-> rerr]

Configs ==
    {Config(src, 8, n, <<>>, FALSE) : src \in AllTexts(MaxProgLen), n \in 1..MaxN}
    \cup {Config(src, w, n, input, rerr) :
            src \in Curated, w \in Widths, n \in 1..(MaxN + 1),
            input \in Inputs, rerr \in BOOLEAN}

\* k times the byte c
Rep(c, k) == SubSeq([i \in 1..k |-> c], 1, k)

\* programs for the tree and byte-tape tiers: a write loop whose If reads,
\* write loops that fill the buffer or fail while it holds bytes, a multiply
\* loop entered on a zero head
Shaped ==
    { <<"+", "[", ".", "[", ",", "[", "-", "]", "]", "]">>,
      <<"[", "<", "+", ">", "-", "]", "+", ".">>,
      <<"-", "[", ".", "+", "]", ",", ".">>,
      <<"+", "[", ".", ".", ">", "]", "<">>,
      <<",", "[", ".", "-", "]", "<">>,
      <<"+", "[", ">", "[", "-", "]", "+", "<", "-", "]", ">", ".">> }

\* runs and loop bodies longer than one byte of the minibit tape encodes
LongN == 40

Long ==
    { Rep(">", 33) \o <<"+">> \o Rep("<", 34),
      Rep("+", 33) \o <<".">> \o Rep("-", 65) \o <<".">>,
      <<"+", "[">> \o Rep(">", 17) \o Rep("<", 17) \o <<"-", "]", ".">>,
      <<"+", "[">> \o Rep(".", 33) \o <<"-", "]", "<">>,
      <<"+", "[">> \o Rep("+", 30) \o Rep("-", 30) \o <<">", "+", "<", ".", "-", "]", ">", ".">> }

TierConfigs ==
    Configs
    \cup {Config(src, w, n, input, FALSE) :
            src \in Shaped, w \in Widths, n \in 1..MaxN, input \in Inputs}
    \cup {Config(src, 8, n, <<>>, FALSE) : src \in Long, n \in {MaxN, LongN}}

-----------------------------------------------------------------------------
(* SpecExec: one executor run in budget slices beside one run unlimited.      *)
(* Both execute the same stream; the unlimited one takes a loop pass exactly  *)
(* when the sliced one does, so the two can be compared pass by pass.         *)

Terminal == {"Ok", "Overflow", "Underflow", "IOError", "InitOverflow"}

InitExec ==
    /\ prog \in Configs
    /\ stream = optimized_from_text(prog.src, prog.w)
    /\ stream.err = "none"
    /\ exe = build(prog.n, prog.input, prog.rerr)
    /\ ref = build(prog.n, prog.input, prog.rerr)
    /\ compiled = Unused /\ mach = Unused /\ first = Unused /\ hist = Unused

\* BrainFuckExecutor::run on the reference executor
Run ==
    /\ ref.res = "idle"
    /\ ref' = run(stream.code, ref)
    /\ UNCHANGED <<prog, stream, exe, compiled, mach, first, hist>>

AddInstructionLimit ==
    /\ ref.res # "idle"
    /\ exe.res \in {"idle", "NotEnoughInstructions"}
    /\ \E amount \in 0..MaxSlice :
          /\ exe.instruction_limit + amount <= MaxLimit
          /\ exe' = add_instruction_limit(exe, amount)
    /\ UNCHANGED <<prog, stream, ref, compiled, mach, first, hist>>

\* the first slice starts at 0, a later one at the idx of the previous error
RunLimitedFrom ==
    /\ ref.res # "idle"
    /\ exe.res \in {"idle", "NotEnoughInstructions"}
    /\ exe' = run_limited_from(stream.code, exe, IF exe.res = "idle" THEN 0 ELSE exe.idx)
    /\ UNCHANGED <<prog, stream, ref, compiled, mach, first, hist>>

\* the sliced executor is stopped by its budget before fetching
Starved(e) == e.idx < Len(stream.code) /\ e.instruction_limit = 0

\* the part of a run the model follows
Near(c, w) ==
    IF w = 8 THEN TRUE
    ELSE IF c[1] = 0 /\ c[2] <= Window THEN TRUE
    ELSE c[1] = MAXc(w)[1] /\ c[2] >= Limb - Window

Followed(data, out, w) ==
    /\ Len(out) <= MaxOut
    /\ \A i \in 1..Len(data) : Near(data[i], w)

Iter ==
    /\ exe.res = "run"
    /\ Followed(exe.data, exe.stdout, prog.w)
    /\ \E elapsed \in BOOLEAN :
          /\ exe' = internal_run_iter(TRUE, stream.code, exe, prog.w, elapsed)
          /\ ref' = IF Starved(exe) \/ ref.res # "run" THEN ref
                    ELSE internal_run_iter(FALSE, stream.code, ref, prog.w, elapsed)
    /\ UNCHANGED <<prog, stream, compiled, mach, first, hist>>

NextExec == Run \/ AddInstructionLimit \/ RunLimitedFrom \/ Iter

SpecExec == InitExec /\ [][NextExec]_vars

-----------------------------------------------------------------------------
(* SpecTiers: the four execution tiers on the same source, tape and input.   *)
(* The tiers run one after another, starting with `first`.                   *)

Tiers == <<"exec", "istream", "minibit", "direct">>

TierSet == {Tiers[k] : k \in 1..Len(Tiers)}

Pos(t) == CHOOSE k \in 1..Len(Tiers) : Tiers[k] = t

\* how many tiers run before t
Rot(t) == (Pos(t) - first) % Len(Tiers)

ResOf(t) == mach[t].res
IdxOf(t) == mach[t].idx
PtrOf(t) == IF t \in {"istream", "minibit"} THEN mach[t].st.ptr ELSE mach[t].ptr
TapeOf(t) ==
    IF t \in {"istream", "minibit"} THEN mach[t].st.cells ELSE mach[t].data
OutOf(t) ==
    CASE t = "exec" -> mach[t].stdout
      [] t = "direct" -> mach[t].wr
      [] OTHER -> mach[t].st.wr
FlushedOf(t) == IF t \in {"istream", "minibit"} THEN mach[t].st.flushed ELSE mach[t].flushed

Finished(t) == ResOf(t) \notin {"idle", "run"}

Active(t) ==
    /\ ~Finished(t)
    /\ \A u \in TierSet : Rot(u) < Rot(t) => Finished(u)
    /\ Followed(TapeOf(t), OutOf(t), prog.w)

\* the instruction tier t fetches next: its kind and, for a pointer move,
\* the distance
Pending(op, k) == [op |-> op, k |-> k]

PendingOf(t) ==
    IF ResOf(t) # "run" THEN Pending("none", 0)
    ELSE CASE t = "exec" ->
                IF ~(IdxOf(t) < Len(compiled[t].code)) THEN Pending("exit", 0)
                ELSE LET i == compiled[t].code[IdxOf(t) + 1]
                     IN  CASE i.op = "IncPtr" -> Pending("IncPtr", 1)
                           [] i.op = "DecPtr" -> Pending("DecPtr", 1)
                           [] i.op = "IncPtrBy" -> Pending("IncPtr", i.arg)
                           [] i.op = "DecPtrBy" -> Pending("DecPtr", i.arg)
                           [] OTHER -> Pending(i.op, 0)
           [] t = "istream" ->
                IF ~(IdxOf(t) < Len(compiled[t].code)) THEN Pending("exit", 0)
                ELSE LET i == compiled[t].code[IdxOf(t) + 1]
                     IN  IF i.op \in {"IncPtr", "DecPtr"} THEN Pending(i.op, i.arg)
                         ELSE Pending(i.op, 0)
           [] t = "minibit" ->
                IF ~(IdxOf(t) < Len(compiled[t].code)) THEN Pending("exit", 0)
                ELSE LET d == decode(compiled[t].code[IdxOf(t) + 1])
                         many == from_le_bytes(SubSeq(compiled[t].code, IdxOf(t) + 2, IdxOf(t) + 9))
                     IN  CASE d[1] = I_IncPtr -> Pending("IncPtr", d[2] + 1)
                           [] d[1] = I_DecPtr -> Pending("DecPtr", d[2] + 1)
                           [] d[1] = I_Wild /\ d[2] = W_IncPtrMany -> Pending("IncPtr", many)
                           [] d[1] = I_Wild /\ d[2] = W_DecPtrMany -> Pending("DecPtr", many)
                           [] d[1] = I_Wild /\ d[2] = W_Read -> Pending("Read", 0)
                           [] d[1] = I_Wild /\ d[2] = W_Write -> Pending("Write", 0)
                           [] OTHER -> Pending("other", 0)
           [] t = "direct" ->
                IF ~(IdxOf(t) < Len(prog.src)) THEN Pending("exit", 0)
                ELSE LET b == prog.src[IdxOf(t) + 1]
                     IN  CASE b = ">" -> Pending("IncPtr", 1)
                           [] b = "<" -> Pending("DecPtr", 1)
                           [] b = "," -> Pending("Read", 0)
                           [] b = "." -> Pending("Write", 0)
                           [] OTHER -> Pending("other", 0)

\* the history after tier t takes the step it is about to take
Record(t) ==
    IF PendingOf(t).op = "Write"
    THEN [hist EXCEPT ![t].writes = Append(@, truncate_u8(TapeOf(t)[PtrOf(t) + 1]))]
    ELSE hist

\* a machine that cannot start because compiling failed
Refused(err) == [res |-> err, idx |-> 0, ptr |-> 0, data |-> <<>>, stdout |-> <<>>,
                 wr |-> <<>>, flushed |-> 0,
                 st |-> [ptr |-> 0, cells |-> <<>>, wr |-> <<>>, flushed |-> 0]]

InitTiers ==
    /\ prog \in TierConfigs
    /\ first \in 1..Len(Tiers)
    /\ compiled = [t \in TierSet |->
                CASE t = "exec" -> optimized_from_text(prog.src, prog.w)
                  [] t = "istream" -> ir_compile(prog.src)
                  [] t = "minibit" -> from_bf(prog.src)
                  [] t = "direct" -> Compiled(prog.src)]
    /\ mach = [t \in TierSet |->
                IF compiled[t].err # "none" THEN Refused(compiled[t].err)
                ELSE CASE t = "exec" -> build(prog.n, prog.input, prog.rerr)
                       [] t = "istream" -> IS_new(BfState_new(prog.n, prog.input, prog.rerr))
                       [] t = "minibit" -> BT_new(BfState_new(prog.n, prog.input, prog.rerr))
                       [] t = "direct" -> stupid_new(prog.n, prog.input, prog.rerr)]
    /\ hist = [t \in TierSet |-> [writes |-> <<>>]]
    /\ stream = Unused /\ exe = Unused /\ ref = Unused

Others == <<prog, stream, exe, ref, compiled, first>>

ExecRun ==
    /\ Active("exec") /\ ResOf("exec") = "idle"
    /\ mach' = [mach EXCEPT !["exec"] = run(compiled["exec"].code, @)]
    /\ UNCHANGED <<hist, Others>>

ExecIter ==
    /\ Active("exec") /\ ResOf("exec") = "run"
    /\ \E elapsed \in BOOLEAN :
          mach' = [mach EXCEPT !["exec"] =
                      internal_run_iter(FALSE, compiled["exec"].code, @, prog.w, elapsed)]
    /\ hist' = Record("exec")
    /\ UNCHANGED Others

ISIter ==
    /\ Active("istream")
    /\ mach' = [mach EXCEPT !["istream"] =
                   IS_iter(compiled["istream"].code, compiled["istream"].table, @, prog.w)]
    /\ hist' = Record("istream")
    /\ UNCHANGED Others

BTIter ==
    /\ Active("minibit")
    /\ mach' = [mach EXCEPT !["minibit"] =
                   BT_iter(compiled["minibit"].code, compiled["minibit"].map, @, prog.w)]
    /\ hist' = Record("minibit")
    /\ UNCHANGED Others

StupidRun ==
    /\ Active("direct") /\ ResOf("direct") = "idle"
    /\ mach' = [mach EXCEPT !["direct"] = stupid_run_entry(@)]
    /\ UNCHANGED <<hist, Others>>

StupidIter ==
    /\ Active("direct") /\ ResOf("direct") = "run"
    /\ mach' = [mach EXCEPT !["direct"] = stupid_iter(prog.src, @, prog.w)]
    /\ hist' = Record("direct")
    /\ UNCHANGED Others

NextTiers == ExecRun \/ ExecIter \/ ISIter \/ BTIter \/ StupidRun \/ StupidIter

SpecTiers == InitTiers /\ [][NextTiers]_vars

-----------------------------------------------------------------------------
(* Properties of the tiers (SpecTiers)                                       *)

\* C1: in every tier the head pointer stays inside the tape, 0 <= p < N, after
\* every executed instruction, the ones that fail with Overflow or Underflow
\* included.
PointerInBounds ==
    \A t \in TierSet : PtrOf(t) >= 0 /\ PtrOf(t) < prog.n

\* every tier has run a program off the far end of a tape of several cells
PointerInBoundsWitness ==
    /\ prog.n > 1
    /\ \A t \in TierSet : ResOf(t) = "Overflow" /\ PtrOf(t) = prog.n - 1

\* the step is one of tier t
StepOf(t) == mach'[t] # mach[t]

\* C2: a pointer move that would leave the tape (an increment by k with
\* p + k >= N, a decrement by k with k > p) returns Overflow respectively
\* Underflow and leaves the pointer and every cell as they were.
MoveOutOfRangeChangesNothing ==
    [][\A t \in TierSet :
          /\ (StepOf(t) /\ PendingOf(t).op = "IncPtr" /\ PtrOf(t) + PendingOf(t).k >= prog.n)
                => /\ ResOf(t)' = "Overflow"
                   /\ PtrOf(t)' = PtrOf(t) /\ TapeOf(t)' = TapeOf(t)
          /\ (StepOf(t) /\ PendingOf(t).op = "DecPtr" /\ PendingOf(t).k > PtrOf(t))
                => /\ ResOf(t)' = "Underflow"
                   /\ PtrOf(t)' = PtrOf(t) /\ TapeOf(t)' = TapeOf(t)]_vars

\* a folded decrement failed away from cell 0, on a tape already written
MoveOutOfRangeWitness ==
    /\ ResOf("minibit") = "Underflow" /\ PtrOf("minibit") > 0
    /\ ResOf("exec") = "Underflow" /\ PtrOf("exec") > 0
    /\ \E i \in 1..prog.n : TapeOf("minibit")[i] # ZERO

\* the three tiers that run the program as written
Direct3 == {"exec", "minibit", "direct"}

WellFormed == compiled["exec"].err = "none"

\* C4 as stated: on a well-formed program the optimized-stream executor,
\* minibit and the direct interpreter end with the same output, the same
\* outcome, the same tape and the same pointer.
TiersAgreeEverywhere ==
    (WellFormed /\ \A t \in Direct3 : Finished(t))
        => \A t, u \in Direct3 :
              /\ OutOf(t) = OutOf(u) /\ ResOf(t) = ResOf(u)
              /\ TapeOf(t) = TapeOf(u) /\ PtrOf(t) = PtrOf(u)

\* C4, amended: the three tiers end with the same output, outcome and tape,
\* and with the same pointer when the outcome is success; after Overflow or
\* Underflow the pointer is where the failed move found it, which for a run
\* of moves depends on how the tier folded the run.
TiersAgree ==
    (WellFormed /\ \A t \in Direct3 : Finished(t))
        => \A t, u \in Direct3 :
              /\ OutOf(t) = OutOf(u) /\ ResOf(t) = ResOf(u)
              /\ TapeOf(t) = TapeOf(u)
              /\ (ResOf(t) = "Ok" => PtrOf(t) = PtrOf(u))

\* the three tiers have read input, written three bytes and ended Ok away
\* from cell 0
TiersAgreeWitness ==
    /\ WellFormed
    /\ \A t \in Direct3 : ResOf(t) = "Ok" /\ Len(OutOf(t)) = 3 /\ PtrOf(t) = 1
    /\ prog.input # <<>>

\* C6 as stated: when InterpreterStream::run returns, with Ok or with a
\* runtime error, the writer has received exactly the bytes of the Writes
\* executed, in order.
WriterHasEveryWrite ==
    (compiled["istream"].err = "none" /\ Finished("istream"))
        => OutOf("istream") = hist["istream"].writes

\* C7 as stated: when a Read executes, every byte of an earlier Write has been
\* handed to the writer and the writer has been flushed, in every tier and
\* while a write loop buffers.
ReadAfterFlush ==
    [][\A t \in TierSet :
          (StepOf(t) /\ PendingOf(t).op = "Read")
              => /\ OutOf(t)' = hist[t].writes
                 /\ FlushedOf(t)' = Len(OutOf(t)')]_vars

-----------------------------------------------------------------------------
(* Properties of the budget (SpecExec)                                       *)

\* C3: however the execution is split into budget slices, it ends with the
\* same tape, pointer and output, and the same outcome at the same index, as
\* the one unlimited run.
SlicedRunRefinesRun ==
    exe.res \in Terminal
        => /\ ref.res = exe.res /\ ref.idx = exe.idx
           /\ ref.data = exe.data /\ ref.ptr = exe.ptr /\ ref.stdout = exe.stdout

\* more opcodes than the budget ever holds have run, in slices, to the end
\* of a stream that reads and writes
SlicedRunWitness ==
    /\ exe.res = "Ok" /\ exe.idx > MaxLimit + 1
    /\ Len(exe.stdout) = 3 /\ prog.input # <<>>

\* the step returns NotEnoughInstructions from the loop of internal_run
StarvedInLoop == exe.res = "run" /\ exe'.res = "NotEnoughInstructions"

\* the step returns NotEnoughInstructions from the check on entry
StarvedOnEntry == exe.res = "idle" /\ exe'.res = "NotEnoughInstructions"

\* the step executes one opcode to its end
Executed == exe.res = "run" /\ exe'.res = "run" /\ exe' # exe

\* C10 as stated: the budget goes down by one per opcode executed;
\* NotEnoughInstructions is returned exactly when the budget is zero and an
\* instruction at idx < len remains, with the idx of that instruction; a run
\* that needs as many opcodes as the budget holds returns Ok.
BudgetExactOnlyMidStream ==
    [][/\ Executed => exe'.instruction_limit = exe.instruction_limit - 1
       /\ (StarvedInLoop \/ StarvedOnEntry)
             => /\ exe'.instruction_limit = 0
                /\ exe'.idx < Len(stream.code)
       /\ (exe.res = "run" /\ exe.instruction_limit = 0 /\ exe.idx < Len(stream.code))
             => exe'.res = "NotEnoughInstructions" /\ exe'.idx = exe.idx
       /\ (exe.res = "run" /\ ~(exe.idx < Len(stream.code))) => exe'.res = "Ok"]_vars

\* C10, amended: as stated, and NotEnoughInstructions is also returned by a
\* run entered with a budget of zero, whether or not an instruction remains
\* (the empty stream included); the idx it carries is then the start index.
BudgetExact ==
    [][/\ Executed => exe'.instruction_limit = exe.instruction_limit - 1
       /\ StarvedInLoop
             => /\ exe'.instruction_limit = 0
                /\ exe'.idx < Len(stream.code) /\ exe'.idx = exe.idx
       /\ StarvedOnEntry => exe'.instruction_limit = 0 /\ exe'.idx = 0
       /\ (exe.res = "idle" /\ exe'.res # "idle" /\ exe.instruction_limit = 0)
             => exe'.res = "NotEnoughInstructions"
       /\ (exe.res = "run" /\ exe.instruction_limit = 0 /\ exe.idx < Len(stream.code))
             => exe'.res = "NotEnoughInstructions" /\ exe'.idx = exe.idx
       /\ (exe.res = "run" /\ ~(exe.idx < Len(stream.code))) => exe'.res = "Ok"]_vars

\* a slice ran out in the middle of a stream, before an instruction it names
BudgetExactWitness ==
    /\ exe.res = "NotEnoughInstructions" /\ exe.instruction_limit = 0
    /\ exe.idx > 0 /\ exe.idx < Len(stream.code)
    /\ ref.idx = exe.idx /\ ref.data = exe.data

-----------------------------------------------------------------------------
(* SpecMul: a loop the multiply predicate accepts, run as the Multiply op    *)
(* beside the same loop run instruction by instruction, from any pointer and *)
(* head value.                                                               *)

MaxBody == 5        \* every loop body of + - > < up to this length is tried
MaxHead == 3        \* head values 0..MaxHead

\* the copy loops of the documentation
CopyBodies ==
    { <<"-", ">", "+", ">", "+", "<", "<">>,
      <<"-", "<", "<", "+", "+", ">", ">">>,
      <<">", ">", "-", "<", "<", "-", "<", "+", ">">> }

MulTexts ==
    UNION {[1..k -> {"+", "-", ">", "<"}] : k \in 2..MaxBody} \cup CopyBodies

LoopOf(body) == <<"[">> \o body \o <<"]">>

\* the loop as to_tree leaves it, and after rewrite_multiply
PlainLoop(body) == synthesize(to_tree(Token_parse(LoopOf(body))).code)
FusedLoop(body) == synthesize(rewrite_multiply(to_tree(Token_parse(LoopOf(body))).code))

Accepted(body) == FusedLoop(body).code = <<Ins("Multiply", 0)>>

\* a tape whose head holds v and whose other cells hold fill
TapeWith(n, p, v, fill) == [i \in 1..n |-> IF i = p + 1 THEN v ELSE fill]

InitMul ==
    /\ \E body \in MulTexts, w \in Widths, n \in 1..(MaxN + 1), v \in 0..MaxHead :
         \E p \in 0..(n - 1), fill \in {ZERO, MAXc(w)} :
            /\ Accepted(body)
            /\ prog = [src |-> body, w |-> w, n |-> n, p |-> p,
                       tape |-> TapeWith(n, p, CellOf(v, w), fill)]
    /\ compiled = [plain |-> PlainLoop(prog.src), fused |-> FusedLoop(prog.src)]
    /\ mach = [t \in {"plain", "fused"} |->
                 IS_new([BfState_new(prog.n, <<>>, FALSE)
                            EXCEPT !.ptr = prog.p, !.cells = prog.tape])]
    /\ stream = Unused /\ exe = Unused /\ ref = Unused
    /\ first = Unused /\ hist = Unused

\* one pass of InterpreterStream::run over the Multiply op
MulFused ==
    /\ mach.fused.res = "run"
    /\ mach' = [mach EXCEPT !.fused =
                   IS_iter(compiled.fused.code, compiled.fused.table, @, prog.w)]
    /\ UNCHANGED <<prog, stream, exe, ref, compiled, first, hist>>

\* one pass of InterpreterStream::run over the loop as written
MulPlain ==
    /\ mach.plain.res = "run"
    /\ mach' = [mach EXCEPT !.plain =
                   IS_iter(compiled.plain.code, compiled.plain.table, @, prog.w)]
    /\ UNCHANGED <<prog, stream, exe, ref, compiled, first, hist>>

NextMul == MulFused \/ MulPlain

SpecMul == InitMul /\ [][NextMul]_vars

PointerError == {"Overflow", "Underflow"}

\* C5 as stated: for every accepted body, pointer position and head value,
\* the Multiply op ends as the loop does: Ok with the same tape and pointer,
\* or a pointer-bounds error.
MultiplyRefinesLoop ==
    (mach.fused.res # "run" /\ mach.plain.res # "run")
        => \/ /\ mach.fused.res = "Ok" /\ mach.plain.res = "Ok"
              /\ mach.fused.st.cells = mach.plain.st.cells
              /\ mach.fused.st.ptr = mach.plain.st.ptr
           \/ mach.fused.res \in PointerError /\ mach.plain.res \in PointerError

-----------------------------------------------------------------------------
(* SpecFold: a run of k identical bytes executed as the one instruction the  *)
(* folding passes make of it, beside the k single instructions executed one  *)
(* after the other.                                                          *)

MaxRun == 3         \* runs of 1..MaxRun bytes are tried on every tape

\* run lengths around the wrap of the 8-bit and of the 16-bit cell
LongRuns == {255, 256, 257, 65537}

Runs == 1..MaxRun \cup LongRuns

\* the unfolded stream holds k copies of one instruction: one pass of
\* internal_run's loop over it, only the copy at e.idx being built
unfolded_iter(c, k, e, w) ==
    IF ~(e.idx < k) THEN [e EXCEPT !.res = "Ok"]
    ELSE LET r == internal_run_iter(FALSE, <<try_from(c)>>, [e EXCEPT !.idx = 0], w, FALSE)
         IN  [r EXCEPT !.idx = IF r.res = "run" THEN e.idx + 1 ELSE e.idx]

\* the token of one byte, as Token::parse makes it of a run of length 1
UnitToken(c) == Token_parse(<<c>>)

\* the same for InterpreterStream::run over k copies of the unit token
unfolded_IS_iter(c, k, r, w) ==
    IF ~(r.idx < k) THEN [r EXCEPT !.res = "Ok"]
    ELSE LET unit == synthesize(to_tree(UnitToken(c)).code)
             q == IS_iter(unit.code, unit.table, [r EXCEPT !.idx = 0], w)
         IN  [q EXCEPT !.idx = IF q.res = "run" THEN r.idx + 1 ELSE r.idx]

InitFold ==
    /\ \E c \in {"+", "-", ">", "<"}, k \in Runs, w \in Widths, n \in 1..MaxN :
         \E p \in 0..(n - 1), v \in {ZERO, from_u8(1), MAXc(w)} :
            /\ k > MaxRun => (n = MaxN /\ p = n - 1)
            /\ k > 2 * 256 => (v = MAXc(w) /\ (c \in {"+", "-"} => w # 8))
            /\ prog = [c |-> c, k |-> k, w |-> w, n |-> n, p |-> p,
                       tape |-> TapeWith(n, p, v, MAXc(w))]
            /\ compiled =
                  [ fold |-> group_common_bf(bf_to_stream(Rep(c, k)), w),
                    tok |-> synthesize(to_tree(Token_parse(Rep(c, k))).code) ]
    /\ mach =
          [ fold |-> [build(prog.n, <<>>, FALSE)
                        EXCEPT !.data = prog.tape, !.ptr = prog.p, !.res = "run"],
            one |-> [build(prog.n, <<>>, FALSE)
                        EXCEPT !.data = prog.tape, !.ptr = prog.p, !.res = "run"],
            tok |-> IS_new([BfState_new(prog.n, <<>>, FALSE)
                        EXCEPT !.ptr = prog.p, !.cells = prog.tape]),
            unit |-> IS_new([BfState_new(prog.n, <<>>, FALSE)
                        EXCEPT !.ptr = prog.p, !.cells = prog.tape]) ]
    /\ stream = Unused /\ exe = Unused /\ ref = Unused
    /\ first = Unused /\ hist = Unused

\* one pass of internal_run over the stream group_common_bf made of the run
FoldExec ==
    /\ mach.fold.res = "run"
    /\ mach' = [mach EXCEPT !.fold =
                   internal_run_iter(FALSE, compiled.fold, @, prog.w, FALSE)]
    /\ UNCHANGED <<prog, stream, exe, ref, compiled, first, hist>>

\* one pass of InterpreterStream::run over the token Token::parse made of the run
FoldToken ==
    /\ mach.fold.res # "run" /\ mach.tok.res = "run"
    /\ mach' = [mach EXCEPT !.tok =
                   IS_iter(compiled.tok.code, compiled.tok.table, @, prog.w)]
    /\ UNCHANGED <<prog, stream, exe, ref, compiled, first, hist>>

\* one pass of both interpreters over the unfolded run
Singles ==
    /\ mach.fold.res # "run" /\ mach.tok.res # "run"
    /\ IF mach.one.res = "run" THEN TRUE ELSE mach.unit.res = "run"
    /\ mach' = [mach EXCEPT
                   !.one = IF @.res = "run"
                           THEN unfolded_iter(prog.c, prog.k, @, prog.w) ELSE @,
                   !.unit = IF @.res = "run"
                            THEN unfolded_IS_iter(prog.c, prog.k, @, prog.w) ELSE @]
    /\ UNCHANGED <<prog, stream, exe, ref, compiled, first, hist>>

NextFold == FoldExec \/ FoldToken \/ Singles

SpecFold == InitFold /\ [][NextFold]_vars

FoldDone == \A t \in {"fold", "tok", "one", "unit"} : mach[t].res # "run"

\* the run became one instruction in both passes
FoldedToOne == Len(compiled.fold) = 1 /\ Len(compiled.tok.code) = 1

-----------------------------------------------------------------------------
(* SpecZero: the loop [body] put through the four places that replace a loop *)
(* by Zero, and, where body is a single + or -, run as written by the direct *)
(* interpreter beside the compiled forms on the other three.                 *)

MaxZeroBody == 2    \* every body of up to this many bytes is tried

\* "#" stands for every byte that is no instruction
Bytes == Alphabet \cup {"#"}

ZeroTexts ==
    UNION {[1..k -> Bytes] : k \in 0..MaxZeroBody}
    \cup { <<"[", "-", "]">>, <<"+", "]", "[", "-">>, <<"#", "+", "#">>,
           <<"+", "+", "+">>, <<"-", "+", "-">> }

\* loop bodies handed to rewrite_zero as trees, the peephole of Token::parse
\* not having seen them
ZeroTrees ==
    { <<Leaf("Inc", 1)>>, <<Leaf("Dec", 1)>>, <<Leaf("Inc", 2)>>, <<Leaf("Dec", 2)>>,
      <<Leaf("Inc", 1), Leaf("Dec", 1)>>, <<Leaf("IncPtr", 1)>>, <<Leaf("Zero", 0)>>,
      <<Leaf("Read", 0)>>, <<Branch("Loop", <<Leaf("Dec", 1)>>)>> }

\* the body is one + or one - once the bytes that are no instruction are gone
PlusMinus(src) == valid(src) \in {<<"+">>, <<"-">>}

UnitTree(kids) == kids \in {<<Leaf("Inc", 1)>>, <<Leaf("Dec", 1)>>}

\* how far the head v is from 0 in the direction the body moves it
Travel(up, v, w) == IF up THEN wrapping_sub(ZERO, v, w) ELSE v

Heads(w) ==
    {CellOf(i, w) : i \in 0..255}
    \cup {wrapping_sub(ZERO, CellOf(i, w), w) : i \in 1..Window}

Skipped == Refused("skip")

InitZero ==
    /\ \E kind \in {"text", "tree"}, w \in Widths, n \in 1..MaxN :
         \E p \in 0..(n - 1), v \in Heads(w),
            src \in (IF kind = "text" THEN ZeroTexts ELSE {<<>>}),
            kids \in (IF kind = "tree" THEN ZeroTrees ELSE {<<>>}) :
            LET unit == IF kind = "text" THEN PlusMinus(src) ELSE UnitTree(kids)
                up == IF kind = "text" THEN valid(src) = <<"+">>
                      ELSE kids = <<Leaf("Inc", 1)>>
                far == Travel(up, v, w)
                text == LoopOf(src)
                tree == IF kind = "tree" THEN Compiled(<<Branch("Loop", kids)>>)
                        ELSE to_tree(Token_parse(text))
                tape == TapeWith(n, p, v, MAXc(w))
                input == <<7>>
                state == [BfState_new(n, input, FALSE) EXCEPT !.ptr = p, !.cells = tape]
            IN  /\ IF unit
                   THEN /\ far[1] = 0
                        /\ IF far[2] <= Window THEN TRUE
                           ELSE w = 8 /\ n = MaxN /\ p = n - 1 /\ Len(src) <= 1
                   ELSE v = ZERO
                /\ prog = [kind |-> kind, src |-> src, kids |-> kids, w |-> w, n |-> n,
                           p |-> p, tape |-> tape, input |-> input]
                /\ compiled =
                     [ tok |-> Token_parse(text),
                       opt |-> static_optimize(group_common_bf(bf_to_stream(text), w)),
                       mini |-> rewrite(text),
                       tree |-> IF tree.err = "none" THEN rewrite_zero(tree.code) ELSE <<>>,
                       exec |-> optimized_from_text(text, w),
                       istream |-> IF tree.err = "none"
                                   THEN synthesize(rewrite_zero(tree.code))
                                   ELSE synthesize(<<>>),
                       plain |-> IF tree.err = "none" THEN synthesize(tree.code)
                                 ELSE synthesize(<<>>),
                       minibit |-> from_bf(text) ]
                /\ mach =
                     [ direct |-> IF unit /\ kind = "text"
                                  THEN stupid_run_entry([stupid_new(n, input, FALSE)
                                           EXCEPT !.ptr = p, !.data = tape])
                                  ELSE Skipped,
                       exec |-> IF unit /\ kind = "text"
                                THEN run(<<>>, [build(n, input, FALSE)
                                         EXCEPT !.ptr = p, !.data = tape])
                                ELSE Skipped,
                       minibit |-> IF unit /\ kind = "text" THEN BT_new(state) ELSE Skipped,
                       plain |-> IF unit /\ kind = "tree" THEN IS_new(state) ELSE Skipped,
                       istream |-> IF unit THEN IS_new(state) ELSE Skipped ]
    /\ stream = Unused /\ exe = Unused /\ ref = Unused
    /\ first = Unused /\ hist = Unused

\* one pass of the direct interpreter over the loop as written
ZeroDirect ==
    /\ mach.direct.res = "run"
    /\ mach' = [mach EXCEPT !.direct = stupid_iter(LoopOf(prog.src), @, prog.w)]
    /\ UNCHANGED <<prog, stream, exe, ref, compiled, first, hist>>

\* one pass of InterpreterStream::run over the loop as to_tree left it
ZeroPlain ==
    /\ mach.plain.res = "run"
    /\ mach' = [mach EXCEPT !.plain =
                   IS_iter(compiled.plain.code, compiled.plain.table, @, prog.w)]
    /\ UNCHANGED <<prog, stream, exe, ref, compiled, first, hist>>

\* one pass of internal_run over the stream static_optimize left
ZeroExec ==
    /\ mach.direct.res # "run" /\ mach.plain.res # "run"
    /\ mach.exec.res = "run"
    /\ mach' = [mach EXCEPT !.exec =
                   internal_run_iter(FALSE, compiled.exec.code, @, prog.w, FALSE)]
    /\ UNCHANGED <<prog, stream, exe, ref, compiled, first, hist>>

\* one pass of InterpreterStream::run over the tree rewrite_zero left
ZeroIS ==
    /\ mach.direct.res # "run" /\ mach.plain.res # "run"
    /\ mach.exec.res # "run" /\ mach.istream.res = "run"
    /\ mach' = [mach EXCEPT !.istream =
                   IS_iter(compiled.istream.code, compiled.istream.table, @, prog.w)]
    /\ UNCHANGED <<prog, stream, exe, ref, compiled, first, hist>>

\* one pass of BTapeStream::run over the bytes rewrite left
ZeroBT ==
    /\ mach.direct.res # "run" /\ mach.plain.res # "run"
    /\ mach.exec.res # "run" /\ mach.istream.res # "run"
    /\ mach.minibit.res = "run"
    /\ mach' = [mach EXCEPT !.minibit =
                   BT_iter(compiled.minibit.code, compiled.minibit.map, @, prog.w)]
    /\ UNCHANGED <<prog, stream, exe, ref, compiled, first, hist>>

NextZero == ZeroDirect \/ ZeroPlain \/ ZeroExec \/ ZeroIS \/ ZeroBT

\* an interpreter that has begun a pass goes on to its end
SpecZero == InitZero /\ [][NextZero]_vars /\ WF_vars(NextZero)

ZeroMachines == {"direct", "plain", "exec", "istream", "minibit"}

\* the places of [+] and [-] in the instruction bytes of a text
ZeroPlaces(text) ==
    LET v == valid(text)
    IN  {i \in 1..(Len(v) - 2) : v[i] = "[" /\ v[i + 1] \in {"+", "-"} /\ v[i + 2] = "]"}

Count(seq, x) == Cardinality({i \in 1..Len(seq) : seq[i] = x})

\* each place makes Zero of [body] exactly when body is a single + or -, and
\* holds as many Zero as the text holds [+] and [-]
ZeroOnlyOfUnit ==
    IF prog.kind = "tree"
    THEN (compiled.tree = <<Leaf("Zero", 0)>>) <=> UnitTree(prog.kids)
    ELSE /\ (compiled.tok = <<Tok("Zero", 0)>>) <=> PlusMinus(prog.src)
         /\ (compiled.tree = <<Leaf("Zero", 0)>>) <=> PlusMinus(prog.src)
         /\ (compiled.opt = <<Ins("Zero", 0)>>) <=> PlusMinus(prog.src)
         /\ (compiled.mini = <<with(I_Zero, 0)>>) <=> PlusMinus(prog.src)
         /\ Count(compiled.tok, Tok("Zero", 0)) = Cardinality(ZeroPlaces(LoopOf(prog.src)))
         /\ Count(compiled.opt, Ins("Zero", 0)) = Cardinality(ZeroPlaces(LoopOf(prog.src)))
         /\ Count(compiled.mini, with(I_Zero, 0)) = Cardinality(ZeroPlaces(LoopOf(prog.src)))

ZeroedTape == [prog.tape EXCEPT ![prog.p + 1] = ZERO]

\* the loop and each of its replacements, once over: Ok, the head cell 0, the
\* pointer and the other cells as they were, nothing written, nothing read
ZeroedOnly ==
    /\ \A t \in ZeroMachines : mach[t].res \in {"run", "Ok", "skip"}
    /\ mach.direct.res = "Ok" =>
          /\ mach.direct.data = ZeroedTape /\ mach.direct.ptr = prog.p
          /\ mach.direct.wr = <<>> /\ mach.direct.rd = prog.input
    /\ mach.exec.res = "Ok" =>
          /\ mach.exec.data = ZeroedTape /\ mach.exec.ptr = prog.p
          /\ mach.exec.stdout = <<>> /\ mach.exec.stdin = prog.input
    /\ \A t \in {"plain", "istream", "minibit"} :
          mach[t].res = "Ok" =>
             /\ mach[t].st.cells = ZeroedTape /\ mach[t].st.ptr = prog.p
             /\ mach[t].st.wr = <<>> /\ mach[t].st.rd = prog.input
    /\ mach.plain.res = "Ok" => mach.plain.cursor = 0
    /\ mach.istream.res = "Ok" => mach.istream.cursor = 0

ZeroDone == \A t \in ZeroMachines : mach[t].res \in {"Ok", "skip"}

-----------------------------------------------------------------------------
(* Properties of a returning limited run (SpecExec) *)

ErrorKinds == {"NotEnoughInstructions", "Overflow", "Underflow", "InitOverflow", "IOError"}

\* the step on which internal_run returns from its loop
Returns == exe.res = "run" /\ exe'.res # "run"

\* C11 as stated: a limited run that returns Ok keeps the budget it has not
\* used, and one that returns an error of any kind leaves a budget of zero.
NothingLeftAfterError ==
    [][Returns => IF exe'.res = "Ok"
                  THEN exe'.instruction_limit = exe.instruction_limit
                  ELSE exe'.instruction_limit = 0]_vars

-----------------------------------------------------------------------------
(* SpecHalt: one call of run_limited_from on an executor built with a budget, *)
(* a starting pointer and a starting index, followed to its return.           *)

MaxBudget == 6      \* budgets 0..MaxBudget

InitHalt ==
    /\ \E cfg \in Configs, limit \in 0..MaxBudget :
         \E starting_ptr \in {0, cfg.n} :
            /\ stream = optimized_from_text(cfg.src, cfg.w)
            /\ stream.err = "none"
            /\ \E start \in 0..Len(stream.code) :
                 prog = [src |-> cfg.src, w |-> cfg.w, n |-> cfg.n, input |-> cfg.input,
                         rerr |-> cfg.rerr, limit |-> limit, start |-> start,
                         starting_ptr |-> starting_ptr]
    /\ exe = [build(prog.n, prog.input, prog.rerr)
                 EXCEPT !.ptr = prog.starting_ptr, !.instruction_limit = prog.limit]
    /\ hist = [fetched |-> 0]
    /\ ref = Unused /\ compiled = Unused /\ mach = Unused /\ first = Unused

\* run_limited_from up to the loop of internal_run
HaltRun ==
    /\ exe.res = "idle"
    /\ exe' = run_limited_from(stream.code, exe, prog.start)
    /\ UNCHANGED <<prog, stream, ref, compiled, mach, first, hist>>

\* one pass of the loop; hist counts the opcodes fetched, up to one past the budget
HaltIter ==
    /\ exe.res = "run"
    /\ \E elapsed \in BOOLEAN :
          exe' = internal_run_iter(TRUE, stream.code, exe, prog.w, elapsed)
    /\ hist' = IF exe.idx < Len(stream.code) /\ exe'.res # "NotEnoughInstructions"
                  /\ hist.fetched <= prog.limit
               THEN [hist EXCEPT !.fetched = @ + 1] ELSE hist
    /\ UNCHANGED <<prog, stream, ref, compiled, mach, first>>

NextHalt == HaltRun \/ HaltIter

\* the call goes on until it returns: every reader and writer call returns
SpecHalt == InitHalt /\ [][NextHalt]_vars /\ WF_vars(NextHalt)

\* C12: run_limited_from returns for every stream and budget, having fetched
\* no more opcodes than the budget held.
LimitedRunHalts ==
    [](hist.fetched <= prog.limit) /\ <>[](exe.res \notin {"idle", "run"})

\* +[] has used its whole budget and returned
LimitedRunHaltsWitness ==
    /\ prog.src = <<"+", "[", "]">> /\ prog.start = 0 /\ prog.limit = MaxBudget
    /\ exe.res = "NotEnoughInstructions" /\ hist.fetched = MaxBudget
    /\ exe.instruction_limit = 0

-----------------------------------------------------------------------------
(* Properties of the error index (SpecTiers) *)

Indexed == {"exec", "istream", "minibit"}

\* the kinds of instruction that can end a run with the error err
FailsWith(err) ==
    CASE err = "Overflow" -> {"IncPtr", "Multiply"}
      [] err = "Underflow" -> {"DecPtr", "Multiply"}
      [] err = "IOError" -> {"Read", "Write", "WLEnd"}
      [] OTHER -> {}

-----------------------------------------------------------------------------
(* SpecLoops: the three loop matchers on one source text *)

MaxLoopText == 4    \* every text of up to this many bytes is matched

\* texts whose pointer runs are long enough for the counted minibit encoding
\* (counts 128 and 160 have a low byte that reads as LStart and LEnd), loops
\* wider than one byte can address, and texts with bytes that are no instruction
LoopTexts ==
    { Rep(">", 160), Rep("<", 128),
      <<"[">> \o Rep("<", 128) \o <<"]">>,
      <<"[">> \o Rep(">", 160),
      Rep(">", 160) \o <<"]">>,
      <<"[">> \o Rep(".", 33) \o <<"]">>,
      <<"[">> \o Rep(".", 33) \o <<"]", "]">>,
      <<"[", "[">> \o Rep(".", 33) \o <<"]">>,
      <<"[", "[", "+", "]">>, <<"[", "-", "]", "]">>,
      <<"[", "[", "-", "]", "]", "[", "]">>, <<"[", "]", "]", "[", "[">>,
      <<"#", "[", "#", "]", "#">>, <<"#", "]", "#">>, <<"[", "#">>,
      <<"[", "[", "]", "[", "]", "]">>, <<"[", "[", "]", "[", "]">> }

LoopInputs ==
    {<<src, 8>> : src \in AllTexts(MaxLoopText)}
    \cup {<<src, w>> : src \in LoopTexts, w \in Widths}

Matchers == {"tree", "stream", "minibit"}

InitLoops ==
    /\ \E c \in LoopInputs : prog = [src |-> c[1], w |-> c[2]]
    /\ mach = [t \in Matchers |-> "idle"]
    /\ stream = Unused /\ exe = Unused /\ ref = Unused /\ compiled = Unused
    /\ first = Unused /\ hist = Unused

Verdict(r) == IF r.err = "none" THEN "Ok" ELSE r.err

\* Token::parse, then Token::to_tree
MatchTree ==
    /\ mach["tree"] = "idle"
    /\ mach' = [mach EXCEPT !["tree"] = Verdict(to_tree(Token_parse(prog.src)))]
    /\ UNCHANGED <<prog, stream, exe, ref, compiled, first, hist>>

\* BfInstructionStream::optimized_from_text, whose last step is insert_bf_jump_points
MatchStream ==
    /\ mach["stream"] = "idle"
    /\ mach' = [mach EXCEPT !["stream"] = Verdict(optimized_from_text(prog.src, prog.w))]
    /\ UNCHANGED <<prog, stream, exe, ref, compiled, first, hist>>

\* BTapeStream::from_bf: rewrite, then insert_loop
MatchMinibit ==
    /\ mach["minibit"] = "idle"
    /\ mach' = [mach EXCEPT !["minibit"] = Verdict(from_bf(prog.src))]
    /\ UNCHANGED <<prog, stream, exe, ref, compiled, first, hist>>

NextLoops == MatchTree \/ MatchStream \/ MatchMinibit

SpecLoops == InitLoops /\ [][NextLoops]_vars

\* the number of `[` less the number of `]` among the first i bytes of v
Depth(v, i) ==
    Cardinality({k \in 1..i : v[k] = "["}) - Cardinality({k \in 1..i : v[k] = "]"})

\* what balance and nesting say of a text
Balance(v) ==
    LET len == Len(v)
    IN  IF \E i \in 1..len : Depth(v, i) < 0 THEN "LoopEndBeforeLoopStart"
        ELSE IF Depth(v, len) > 0 THEN "LoopCountMismatch"
        ELSE "Ok"

\* C14: each of the three loop matchers accepts a text exactly when its loop
\* starts and ends are balanced and nested, fails with LoopEndBeforeLoopStart
\* when an end arrives with no loop open and with LoopCountMismatch when the
\* text ends with a loop open; so the three give the same verdict.
MatchersAgreeWithBalance ==
    \A t \in Matchers : mach[t] # "idle" => mach[t] = Balance(prog.src)

\* a loop left open around a loop the peepholes replace: all three have refused
MatchersAgreeWitness ==
    /\ prog.src = <<"[", "[", "+", "]">>
    /\ \A t \in Matchers : mach[t] = "LoopCountMismatch"

-----------------------------------------------------------------------------
(* Unmatched loops in the four tiers (SpecTiers) *)

CompErrors == {"LoopCountMismatch", "LoopEndBeforeLoopStart"}

\* C15 as stated: a program whose `[` and `]` do not match is refused with a
\* compile error by every tier, the direct interpreter included: no tier ends
\* such a program with Ok or with a runtime error.
UnmatchedIsRefused ==
    Balance(prog.src) # "Ok" =>
        \A t \in TierSet : Finished(t) => ResOf(t) \in CompErrors

-----------------------------------------------------------------------------
(* SpecSnap: render_c_deadline (main.rs).  The program is evaluated with a   *)
(* reader that always fails and a Vec as writer, in slices of est opcodes;   *)
(* what render_interpreted_c writes is then run as the C program it is, on   *)
(* the real input, and after it the original program from its start.         *)

MaxEst == 3         \* est, a tenth of the measured throughput: 0..MaxEst

SnapTexts ==
    Curated
    \cup { <<"+", ".", ">", "+", "[", ".", "-", "]", "<", ".">>,
           <<"+", "[", ">", "+", ".", "<", "-", "]", ",", ".">>,
           <<"-", ">", "-", "[", "+", "]", "<", "[", ".", "+", "]">> }

SnapConfigs ==
    {Config(src, 8, n, input, TRUE) :
        src \in AllTexts(MaxProgLen), n \in 1..MaxN, input \in {<<>>, <<32>>}}
    \cup {Config(src, w, n, input, TRUE) :
            src \in SnapTexts, w \in Widths, n \in 1..MaxN, input \in Inputs}
    \cup {Config(src, 8, 0, <<>>, TRUE) : src \in AllTexts(1)}

NotRendered == <<>>

InitSnap ==
    /\ \E cfg \in SnapConfigs, est \in 0..MaxEst :
          /\ stream = optimized_from_text(cfg.src, cfg.w)
          /\ stream.err = "none"
          /\ prog = [src |-> cfg.src, w |-> cfg.w, n |-> cfg.n, input |-> cfg.input,
                     rerr |-> cfg.rerr, est |-> est]
    /\ exe = build(prog.n, <<>>, TRUE)
    /\ hist = [pc |-> "begin", s_idx |-> 0]
    /\ compiled = NotRendered
    /\ ref = [res |-> "idle"]
    /\ mach = [res |-> "idle"]
    /\ first = Unused

\* the first add_instruction_limit(est), before the loop
SnapBegin ==
    /\ hist.pc = "begin"
    /\ exe' = add_instruction_limit(exe, prog.est)
    /\ hist' = [hist EXCEPT !.pc = "call"]
    /\ UNCHANGED <<prog, stream, ref, compiled, mach, first>>

\* execenv.run_limited_from(code, s_idx), up to the loop of internal_run
SnapCall ==
    /\ hist.pc = "call"
    /\ exe' = run_limited_from(stream.code, exe, hist.s_idx)
    /\ hist' = [hist EXCEPT !.pc = "run"]
    /\ UNCHANGED <<prog, stream, ref, compiled, mach, first>>

\* one pass of the loop of internal_run; flushing the Vec does nothing
SnapIter ==
    /\ hist.pc = "run" /\ exe.res = "run"
    /\ Followed(exe.data, exe.stdout, prog.w)
    /\ exe' = internal_run_iter(TRUE, stream.code, exe, prog.w, FALSE)
    /\ UNCHANGED <<prog, stream, ref, compiled, mach, first, hist>>

Snapshot(instruction_pointer) ==
    render_interpreted_c(stream.code,
                         BfExecState(exe.ptr, exe.data, instruction_pointer),
                         exe.stdout)

\* the arm Ok(()): the captured output alone
SnapOk ==
    /\ hist.pc = "run" /\ exe.res = "Ok"
    /\ compiled' = Snapshot(-1)
    /\ hist' = [hist EXCEPT !.pc = "rendered"]
    /\ UNCHANGED <<prog, stream, exe, ref, mach, first>>

\* the pointer-error arm treated as the IOError arm is
SnapBoundsRendered ==
    /\ hist.pc = "run" /\ exe.res \in {"Overflow", "Underflow", "InitOverflow"}
    /\ compiled' = Snapshot(exe.idx)
    /\ hist' = [hist EXCEPT !.pc = "rendered"]
    /\ UNCHANGED <<prog, stream, exe, ref, mach, first>>

\* the arm Overflow | Underflow | InitOverflow: no C is written
SnapBounds ==
    /\ hist.pc = "run" /\ exe.res \in {"Overflow", "Underflow", "InitOverflow"}
    /\ hist' = [hist EXCEPT !.pc = "consteval"]
    /\ UNCHANGED <<prog, stream, exe, ref, compiled, mach, first>>

\* the arm IOError: the reader was asked
SnapIOError ==
    /\ hist.pc = "run" /\ exe.res = "IOError"
    /\ compiled' = Snapshot(exe.idx)
    /\ hist' = [hist EXCEPT !.pc = "rendered"]
    /\ UNCHANGED <<prog, stream, exe, ref, mach, first>>

\* the arm NotEnoughInstructions without `s_idx = idx`
SnapSlice_stale ==
    /\ hist.pc = "run" /\ exe.res = "NotEnoughInstructions"
    /\ \E late \in BOOLEAN :
          IF late
          THEN /\ compiled' = Snapshot(exe.idx)
               /\ hist' = [hist EXCEPT !.pc = "rendered"]
               /\ exe' = exe
          ELSE /\ exe' = add_instruction_limit(exe, prog.est)
               /\ hist' = [hist EXCEPT !.pc = "call"]
               /\ compiled' = compiled
    /\ UNCHANGED <<prog, stream, ref, mach, first>>

\* the arm NotEnoughInstructions; late: Instant::now() > deadline
SnapSlice ==
    /\ hist.pc = "run" /\ exe.res = "NotEnoughInstructions"
    /\ \E late \in BOOLEAN :
          IF late
          THEN /\ compiled' = Snapshot(exe.idx)
               /\ hist' = [hist EXCEPT !.s_idx = exe.idx, !.pc = "rendered"]
               /\ exe' = exe
          ELSE /\ exe' = add_instruction_limit(exe, prog.est)
               /\ hist' = [hist EXCEPT !.s_idx = exe.idx, !.pc = "call"]
               /\ compiled' = compiled
    /\ UNCHANGED <<prog, stream, ref, mach, first>>

\* the bytes a C compiler makes of the \x escapes of a literal
c_unescape(lit) == [i \in 1..Len(lit) |-> lit[i][1] * 16 + lit[i][2]]

RECURSIVE c_assign(_, _, _)
c_assign(arr, cells, k) ==
    IF k > Len(cells) THEN arr
    ELSE c_assign([arr EXCEPT ![cells[k][1] + 1] = cells[k][2]], cells, k + 1)

\* main() of the rendered program up to its first instruction: the array of
\* ARRSIZE zero cells, the fwrite, the assignments, the advance and the goto
c_main(c, n, input) ==
    LET m == build(n, input, FALSE)
        out == SubSeq(c_unescape(c.fwrite.lit), 1, c.fwrite.len)
    IN  [m EXCEPT !.stdout = out, !.flushed = Len(out),
                  !.data = c_assign(Tape(n), c.cells, 1),
                  !.ptr = c.advance,
                  !.idx = IF c.goto THEN c.label ELSE 0,
                  !.res = IF c.goto /\ c.label = -1 THEN "NoLabel" ELSE "run"]

CMain ==
    /\ hist.pc = "rendered" /\ ref.res = "idle"
    /\ ref' = c_main(compiled, prog.n, prog.input)
    /\ UNCHANGED <<prog, stream, exe, compiled, mach, first, hist>>

\* one instruction of the rendered body
CIter ==
    /\ ref.res = "run"
    /\ Followed(ref.data, ref.stdout, prog.w)
    /\ ref' = internal_run_iter(FALSE, compiled.body, ref, prog.w, FALSE)
    /\ UNCHANGED <<prog, stream, exe, compiled, mach, first, hist>>

\* the original program on the real input, from its start
OrigRun ==
    /\ ref.res \notin {"idle", "run"} /\ mach.res = "idle"
    /\ mach' = run(stream.code, build(prog.n, prog.input, FALSE))
    /\ UNCHANGED <<prog, stream, exe, ref, compiled, first, hist>>

OrigIter ==
    /\ mach.res = "run"
    /\ Followed(mach.data, mach.stdout, prog.w)
    /\ mach' = internal_run_iter(FALSE, stream.code, mach, prog.w, FALSE)
    /\ UNCHANGED <<prog, stream, exe, ref, compiled, first, hist>>

NextSnap ==
    \/ SnapBegin \/ SnapCall \/ SnapIter \/ SnapOk \/ SnapBounds \/ SnapIOError
    \/ SnapSlice \/ CMain \/ CIter \/ OrigRun \/ OrigIter

SpecSnap == InitSnap /\ [][NextSnap]_vars

BothEnded == ref.res \notin {"idle", "run"} /\ mach.res \notin {"idle", "run"}

\* C16: whatever the point at which partial evaluation stops (a Read, or a
\* slice boundary after the deadline), the rendered program - captured output,
\* non-zero cells, pointer, stop index - ends on every input with the output,
\* outcome, tape, pointer and unread input of the original program run from
\* its start; after an Ok evaluation the captured output is the whole output.
SnapshotSuffices ==
    /\ compiled # NotRendered => (compiled.goto => compiled.label # -1)
    /\ BothEnded =>
          /\ ref.stdout = mach.stdout
          /\ ref.res = mach.res
          /\ exe.res = "Ok" => compiled.body = <<>> /\ ref.stdout = exe.stdout
          /\ exe.res # "Ok" =>
                /\ ref.data = mach.data /\ ref.ptr = mach.ptr
                /\ ref.stdin = mach.stdin /\ ref.idx = mach.idx

\* a stop at a slice boundary inside a loop, with output captured, a cell set
\* and the pointer moved; the rendered program and the original have both
\* gone on to write more and have ended
SnapshotWitness ==
    /\ BothEnded /\ exe.res = "NotEnoughInstructions" /\ mach.res = "Ok"
    /\ compiled.goto /\ compiled.advance > 0 /\ compiled.cells # <<>>
    /\ compiled.fwrite.len > 0 /\ Len(mach.stdout) > compiled.fwrite.len
    /\ stream.code[compiled.label + 1].op \in {"Write", "LEnd", "Dec"}

-----------------------------------------------------------------------------
(* SpecTwice: compile (main.rs) run twice on the same source, cell width,    *)
(* tape size and opt-level >= 1.  Each run measures its own throughput and   *)
(* meets its deadline at an instant of its own.                              *)

TwiceConfigs ==
    {Config(src, 8, n, <<>>, TRUE) : src \in AllTexts(MaxProgLen), n \in 1..MaxN}
    \cup {Config(src, w, MaxN, <<>>, TRUE) : src \in SnapTexts, w \in Widths}

\* a run of render_c_deadline before its first statement
Compile(n, est) ==
    [execenv |-> build(n, <<>>, TRUE), est |-> est, s_idx |-> 0, pc |-> "begin",
     fp |-> NotRendered]

InitTwice ==
    /\ \E cfg \in TwiceConfigs :
          /\ stream = optimized_from_text(cfg.src, cfg.w)
          /\ stream.err = "none"
          /\ prog = cfg
    /\ \E est1 \in 0..MaxEst, est2 \in 0..MaxEst :
          mach = <<Compile(prog.n, est1), Compile(prog.n, est2)>>
    /\ exe = Unused /\ ref = Unused /\ compiled = Unused /\ first = Unused
    /\ hist = Unused

\* the second run starts when the first has returned
Turn(r) == r = 1 \/ mach[1].pc \in {"rendered", "consteval"}

TwiceBegin ==
    \E r \in 1..2 :
        /\ Turn(r) /\ mach[r].pc = "begin"
        /\ mach' = [mach EXCEPT ![r].execenv = add_instruction_limit(@, mach[r].est),
                                ![r].pc = "call"]
        /\ UNCHANGED <<prog, stream, exe, ref, compiled, first, hist>>

TwiceCall ==
    \E r \in 1..2 :
        /\ mach[r].pc = "call"
        /\ mach' = [mach EXCEPT ![r].execenv = run_limited_from(stream.code, @, mach[r].s_idx),
                                ![r].pc = "run"]
        /\ UNCHANGED <<prog, stream, exe, ref, compiled, first, hist>>

TwiceIter ==
    \E r \in 1..2 :
        /\ mach[r].pc = "run" /\ mach[r].execenv.res = "run"
        /\ Followed(mach[r].execenv.data, mach[r].execenv.stdout, prog.w)
        /\ mach' = [mach EXCEPT ![r].execenv =
                       internal_run_iter(TRUE, stream.code, @, prog.w, FALSE)]
        /\ UNCHANGED <<prog, stream, exe, ref, compiled, first, hist>>

\* what the match on the result of run_limited_from does to run k; late:
\* Instant::now() > deadline
deadline_match(k, code, late) ==
    LET e == k.execenv
        render(ip) == render_interpreted_c(code, BfExecState(e.ptr, e.data, ip), e.stdout)
    IN  CASE e.res = "Ok" -> [k EXCEPT !.fp = render(-1), !.pc = "rendered"]
          [] e.res \in {"Overflow", "Underflow", "InitOverflow"} -> [k EXCEPT !.pc = "consteval"]
          [] e.res = "IOError" -> [k EXCEPT !.fp = render(e.idx), !.pc = "rendered"]
          [] e.res = "NotEnoughInstructions" ->
                IF late
                THEN [k EXCEPT !.s_idx = e.idx, !.fp = render(e.idx), !.pc = "rendered"]
                ELSE [k EXCEPT !.s_idx = e.idx, !.pc = "call",
                               !.execenv = add_instruction_limit(e, k.est)]

TwiceMatch ==
    \E r \in 1..2, late \in BOOLEAN :
        /\ mach[r].pc = "run" /\ mach[r].execenv.res \notin {"idle", "run"}
        /\ mach' = [mach EXCEPT ![r] = deadline_match(@, stream.code, late)]
        /\ UNCHANGED <<prog, stream, exe, ref, compiled, first, hist>>

NextTwice == TwiceBegin \/ TwiceCall \/ TwiceIter \/ TwiceMatch

SpecTwice == InitTwice /\ [][NextTwice]_vars

\* C17 as stated: two runs of compile on the same source, cell width, tape size
\* and opt-level write the same C text, whatever throughput each run measures
\* and whenever each observes its deadline.
CompileTwiceSame ==
    (mach[1].pc = "rendered" /\ mach[2].pc = "rendered") => mach[1].fp = mach[2].fp

-----------------------------------------------------------------------------
(* nonblocking.rs: the NonBlocking write adapter and its background thread   *)

\* the state both threads reach: the Mutex<Vec<u8>> with its owner, the cache
\* of the thread, the two bounded(1) channels, whether the Sender still
\* exists, and the underlying writer (the bytes it was given and how many of
\* them it held at its last flush)
nonblocking ==
    [shared |-> <<>>, lock |-> "free", cache |-> <<>>, arg_ch |-> <<>>, ret_ch |-> <<>>,
     connected |-> TRUE, sink |-> <<>>, flushed |-> 0]

\* Write::write once the lock is held: extend_from_slice, the guard dropped
extend_from_slice(m, buf) == [m EXCEPT !.shared = @ \o buf, !.lock = "free"]

\* crossbeam bounded(1): a send waits while the channel holds a message
CanSend(ch) == Len(ch) < 1

\* arg_recv.recv_timeout(interval): a message if there is one, Disconnected
\* once the Sender is gone, Timeout otherwise
recv_timeout(m) ==
    IF m.arg_ch # <<>> THEN "Flush"
    ELSE IF ~m.connected THEN "Disconnected" ELSE "Timeout"

\* the shared buffer copied into the cache and left as it was
replace_copied(m) == [m EXCEPT !.cache = m.shared, !.lock = "free"]

\* core::mem::replace(&mut shared.lock().unwrap(), cache), the guard dropped
replace(m) == [m EXCEPT !.cache = m.shared, !.shared = m.cache, !.lock = "free"]

\* writer.write, which may take only part of the buffer
write_some(m) ==
    IF m.cache = <<>> THEN m ELSE [m EXCEPT !.sink = Append(@, Head(m.cache))]

\* writer.write_all(&cache)
write_all(m) == [m EXCEPT !.sink = @ \o m.cache]

\* cache.clear() and the match on arg without the reply to a Flush
thread_match_silent(t, m) ==
    [t |-> [t EXCEPT !.pc = IF t.arg = "Disconnected" THEN "exit" ELSE "recv"],
     m |-> [m EXCEPT !.cache = <<>>]]

\* cache.clear() and the match on arg: pc is where the thread goes on
thread_match(t, m) ==
    [t |-> [t EXCEPT !.pc = IF t.arg = "Disconnected" THEN "exit" ELSE "recv"],
     m |-> [m EXCEPT !.cache = <<>>,
                     !.ret_ch = IF t.arg = "Flush" THEN Append(@, t.res) ELSE @]]

-----------------------------------------------------------------------------
(* SpecNB: one owner of the adapter writing, flushing and dropping it, and   *)
(* the background thread, interleaved at every lock, channel and writer call *)

MaxBytes == 3       \* bytes the owner writes in all
MaxBuf == 2         \* longest buffer of one write

InitNB ==
    /\ mach = nonblocking
    /\ exe = [pc |-> "idle", buf |-> <<>>, dropping |-> FALSE]
    /\ ref = [pc |-> "recv", arg |-> "Timeout", res |-> "Ok"]
    /\ hist = [accepted |-> <<>>, mark |-> 0, ret |-> "Ok", timer |-> 0]
    /\ prog = Unused /\ stream = Unused /\ compiled = Unused /\ first = Unused

\* write(buf): self.0.lock(); the k-th byte written has the value k
NBWriteLock ==
    /\ exe.pc = "idle" /\ mach.lock = "free"
    /\ \E len \in 1..MaxBuf :
          /\ Len(hist.accepted) + len <= MaxBytes
          /\ exe' = [exe EXCEPT !.pc = "locked",
                                !.buf = [i \in 1..len |-> Len(hist.accepted) + i]]
    /\ mach' = [mach EXCEPT !.lock = "caller"]
    /\ UNCHANGED <<prog, stream, ref, compiled, first, hist>>

\* write(buf): the bytes appended, Ok(buf.len()) returned
NBWrite ==
    /\ exe.pc = "locked"
    /\ mach' = extend_from_slice(mach, exe.buf)
    /\ hist' = [hist EXCEPT !.accepted = @ \o exe.buf]
    /\ exe' = [exe EXCEPT !.pc = "idle", !.buf = <<>>]
    /\ UNCHANGED <<prog, stream, ref, compiled, first>>

\* flush(), called by the owner (drop = FALSE) or by Drop::drop: the send
NBFlushSend ==
    /\ exe.pc = "idle" /\ CanSend(mach.arg_ch)
    /\ \E drop \in BOOLEAN : exe' = [exe EXCEPT !.pc = "wait", !.dropping = drop]
    /\ mach' = [mach EXCEPT !.arg_ch = Append(@, "Flush")]
    /\ hist' = [hist EXCEPT !.mark = Len(hist.accepted)]
    /\ UNCHANGED <<prog, stream, ref, compiled, first>>

\* flush(): self.2.recv() returns; after Drop::drop the fields are dropped
NBFlushRecv ==
    /\ exe.pc = "wait" /\ mach.ret_ch # <<>>
    /\ hist' = [hist EXCEPT !.ret = Head(mach.ret_ch)]
    /\ mach' = [mach EXCEPT !.ret_ch = Tail(@),
                            !.connected = IF exe.dropping THEN FALSE ELSE @]
    /\ exe' = [exe EXCEPT !.pc = IF exe.dropping THEN "dropped" ELSE "idle"]
    /\ UNCHANGED <<prog, stream, ref, compiled, first>>

ThreadRecv ==
    /\ ref.pc = "recv"
    /\ ref' = [ref EXCEPT !.arg = recv_timeout(mach), !.pc = "lock"]
    /\ mach' = [mach EXCEPT !.arg_ch = IF @ # <<>> THEN Tail(@) ELSE @]
    /\ UNCHANGED <<prog, stream, exe, compiled, first, hist>>

ThreadLock ==
    /\ ref.pc = "lock" /\ mach.lock = "free"
    /\ mach' = [mach EXCEPT !.lock = "thread"]
    /\ ref' = [ref EXCEPT !.pc = "replace"]
    /\ UNCHANGED <<prog, stream, exe, compiled, first, hist>>

ThreadReplace ==
    /\ ref.pc = "replace"
    /\ mach' = replace(mach)
    /\ ref' = [ref EXCEPT !.pc = "write_all"]
    /\ UNCHANGED <<prog, stream, exe, compiled, first, hist>>

\* hist.timer counts the bytes the writer is given on a timeout
ThreadWriteAll ==
    /\ ref.pc = "write_all"
    /\ mach' = write_all(mach)
    /\ ref' = [ref EXCEPT !.pc = "flush"]
    /\ hist' = [hist EXCEPT !.timer = IF ref.arg = "Timeout" THEN @ + Len(mach.cache) ELSE @]
    /\ UNCHANGED <<prog, stream, exe, compiled, first>>

\* writer.flush(), with either result
ThreadFlush ==
    /\ ref.pc = "flush"
    /\ \E res \in {"Ok", "Err"} : ref' = [ref EXCEPT !.res = res, !.pc = "match"]
    /\ mach' = [mach EXCEPT !.flushed = Len(mach.sink)]
    /\ UNCHANGED <<prog, stream, exe, compiled, first, hist>>

ThreadMatch ==
    /\ ref.pc = "match"
    /\ ref.arg = "Flush" => CanSend(mach.ret_ch)
    /\ ref' = thread_match(ref, mach).t
    /\ mach' = thread_match(ref, mach).m
    /\ UNCHANGED <<prog, stream, exe, compiled, first, hist>>

ThreadNext ==
    \/ ThreadRecv \/ ThreadLock \/ ThreadReplace \/ ThreadWriteAll \/ ThreadFlush
    \/ ThreadMatch

NextNB == NBWriteLock \/ NBWrite \/ NBFlushSend \/ NBFlushRecv \/ ThreadNext

\* the thread is scheduled and the writer's calls return; a caller that holds
\* the lock or has its reply goes on
SpecNB ==
    /\ InitNB /\ [][NextNB]_vars
    /\ WF_vars(ThreadNext) /\ WF_vars(NBWrite) /\ WF_vars(NBFlushRecv)

\* C18: when drop has returned, every byte write() accepted has been given to
\* the underlying writer, in order and once, and the writer has been flushed
\* after the last of them, whatever the thread was doing on its timer.
DropDelivers ==
    exe.pc = "dropped" =>
        /\ mach.sink = hist.accepted
        /\ mach.flushed = Len(hist.accepted)
        /\ mach.shared = <<>>

\* the adapter has been dropped after writes of which the timer took some
\* while the owner went on writing
DropDeliversWitness ==
    /\ exe.pc = "dropped" /\ Len(hist.accepted) = MaxBytes
    /\ hist.timer > 0 /\ hist.timer < MaxBytes

Waiting == exe.pc = "wait"

\* C19: flush() returns only when every byte written before the call has been
\* given to the underlying writer and the writer flushed; it always returns,
\* its send never finds the channel full, and the thread never holds the mutex
\* while it is in the writer, so that write() waits for the swap at most.
FlushReturns ==
    /\ [](/\ (Waiting /\ mach.ret_ch # <<>>) =>
                /\ mach.sink = hist.accepted
                /\ mach.flushed = Len(hist.accepted)
                /\ Len(hist.accepted) = hist.mark
          /\ exe.pc = "idle" => CanSend(mach.arg_ch) /\ mach.ret_ch = <<>>
          /\ ref.pc \in {"write_all", "flush", "match", "recv"} => mach.lock # "thread"
          /\ ref.pc = "exit" => exe.pc = "dropped")
    /\ (Waiting ~> ~Waiting)

\* a flush called while the thread was giving earlier bytes to the writer on
\* its timer has its reply: the later bytes have followed
FlushReturnsWitness ==
    /\ Waiting /\ ~exe.dropping /\ mach.ret_ch = <<"Err">>
    /\ hist.timer = 1 /\ hist.mark = MaxBytes /\ mach.sink = hist.accepted

-----------------------------------------------------------------------------
(* Properties of Read (SpecTiers) *)

\* the input tier t has not read yet
InOf(t) ==
    CASE t = "exec" -> mach[t].stdin
      [] t \in {"istream", "minibit"} -> mach[t].st.rd
      [] t = "direct" -> mach[t].rd

\* C20: a Read whose reader returns no byte sets the head cell to 0 whatever
\* it held, a Read that obtains byte b sets it to b zero-extended to the cell
\* width; either way the pointer and the other cells stay and the run goes on.
ReadSetsHead ==
    [][\A t \in TierSet :
          (StepOf(t) /\ PendingOf(t).op = "Read" /\ ~prog.rerr) =>
             /\ ResOf(t)' = "run"
             /\ PtrOf(t)' = PtrOf(t)
             /\ Len(TapeOf(t)') = Len(TapeOf(t))
             /\ \A i \in 1..Len(TapeOf(t)) :
                   i # PtrOf(t) + 1 => TapeOf(t)'[i] = TapeOf(t)[i]
             /\ IF InOf(t) = <<>>
                THEN TapeOf(t)'[PtrOf(t) + 1] = ZERO /\ InOf(t)' = <<>>
                ELSE /\ TapeOf(t)'[PtrOf(t) + 1] = <<0, Head(InOf(t))>>
                     /\ InOf(t)' = Tail(InOf(t))]_vars

\* +.,.>,. on no input with 16-bit cells: the first Read has put 0 over the 1
\* in the head, which the second Write has shown, in all four tiers
ReadSetsHeadWitness ==
    /\ prog.src = <<"+", ".", ",", ".", ">", ",", ".">> /\ prog.input = <<>>
    /\ prog.w = 16 /\ ~prog.rerr
    /\ \A t \in TierSet : ResOf(t) = "Ok" /\ hist[t].writes = <<1, 0, 0>>

-----------------------------------------------------------------------------
(* SpecInit: construction and entry with any initial pointer, on tapes of    *)
(* any length, the empty tape included                                       *)

MaxInitText == 2    \* every source text up to this length

InitInit ==
    /\ \E src \in AllTexts(MaxInitText), n \in 0..MaxN, ptr \in 0..(MaxN + 1),
          limit \in 0..1, limited \in BOOLEAN, input \in {<<>>, <<32>>} :
          /\ stream = optimized_from_text(src, 8)
          /\ stream.err = "none"
          /\ prog = [src |-> src, w |-> 8, n |-> n, ptr |-> ptr, limit |-> limit,
                     limited |-> limited, input |-> input]
    /\ exe = [build(prog.n, prog.input, FALSE)
                 EXCEPT !.ptr = prog.ptr, !.instruction_limit = prog.limit]
    /\ mach = [stupid_new(prog.n, prog.input, FALSE) EXCEPT !.ptr = prog.ptr]
    /\ ref = [called |-> FALSE]
    /\ compiled = Unused /\ first = Unused /\ hist = Unused

InitNew ==
    /\ ~ref.called
    /\ ref' = [called |-> TRUE, res |-> new(prog.ptr, Tape(prog.n), prog.input, FALSE)]
    /\ UNCHANGED <<prog, stream, exe, compiled, mach, first, hist>>

\* run or run_limited, up to the loop
InitRun ==
    /\ exe.res = "idle"
    /\ exe' = IF prog.limited THEN run_limited_from(stream.code, exe, 0)
              ELSE run(stream.code, exe)
    /\ UNCHANGED <<prog, stream, ref, compiled, mach, first, hist>>

InitIter ==
    /\ exe.res = "run"
    /\ \E elapsed \in BOOLEAN :
          exe' = internal_run_iter(prog.limited, stream.code, exe, prog.w, elapsed)
    /\ UNCHANGED <<prog, stream, ref, compiled, mach, first, hist>>

InitDirectRun ==
    /\ mach.res = "idle"
    /\ mach' = stupid_run_entry(mach)
    /\ UNCHANGED <<prog, stream, exe, ref, compiled, first, hist>>

InitDirectIter ==
    /\ mach.res = "run"
    /\ mach' = stupid_iter(prog.src, mach, prog.w)
    /\ UNCHANGED <<prog, stream, exe, ref, compiled, first, hist>>

NextInit == InitNew \/ InitRun \/ InitIter \/ InitDirectRun \/ InitDirectIter

SpecInit == InitInit /\ [][NextInit]_vars

OutOfRange == prog.ptr >= prog.n

\* C21: BfState::new fails exactly when ptr >= cells.len() and hands its
\* arguments back; the executor and the direct interpreter return InitOverflow
\* exactly when ptr >= tape length (a tape of length 0 included), with the
\* tape, the pointer, the budget and both streams as they were, and rather
\* than NotEnoughInstructions when the budget is zero as well.
InitialPointerChecked ==
    /\ ref.called =>
          /\ ref.res.ok <=> ~OutOfRange
          /\ ~ref.res.ok => ref.res.st = <<prog.ptr, Tape(prog.n), prog.input, FALSE>>
          /\ ref.res.ok => /\ ref.res.st.ptr = prog.ptr /\ ref.res.st.cells = Tape(prog.n)
                           /\ ref.res.st.rd = prog.input /\ ref.res.st.wr = <<>>
    /\ exe.res # "idle" =>
          /\ exe.res = "InitOverflow" <=> OutOfRange
          /\ OutOfRange =>
                exe = [build(prog.n, prog.input, FALSE)
                          EXCEPT !.ptr = prog.ptr, !.instruction_limit = prog.limit,
                                 !.res = "InitOverflow"]
    /\ mach.res # "idle" =>
          /\ mach.res = "InitOverflow" <=> OutOfRange
          /\ OutOfRange =>
                mach = [stupid_new(prog.n, prog.input, FALSE)
                           EXCEPT !.ptr = prog.ptr, !.res = "InitOverflow"]

\* a limited run with no budget on a tape of length 0: all three have refused
InitialPointerWitness ==
    /\ prog.n = 0 /\ prog.ptr = 0 /\ prog.limited /\ prog.limit = 0
    /\ prog.src # <<>> /\ prog.input # <<>>
    /\ ref.called /\ ~ref.res.ok
    /\ exe.res = "InitOverflow" /\ mach.res = "InitOverflow"

-----------------------------------------------------------------------------
(* Pointer errors during partial evaluation (SpecSnap) *)

PointerErrors == {"Overflow", "Underflow", "InitOverflow"}

\* C22: when partial evaluation ends in Overflow, Underflow or InitOverflow,
\* render_c_deadline returns the consteval error and render_interpreted_c is
\* never called: no header and no snapshot is written, and nothing written is
\* ever run; the error arm is taken for these three outcomes only.
PointerErrorIsNoSnapshot ==
    /\ exe.res \in PointerErrors =>
          /\ compiled = NotRendered /\ ref.res = "idle"
          /\ hist.pc \in {"run", "consteval"}
    /\ hist.pc = "consteval" => exe.res \in PointerErrors

\* the evaluation has captured output, gone through a refill of the budget and
\* then run off the tape: compile has failed with nothing rendered
PointerErrorWitness ==
    /\ hist.pc = "consteval" /\ exe.res = "Overflow"
    /\ exe.stdout # <<>> /\ hist.s_idx > 0 /\ compiled = NotRendered

-----------------------------------------------------------------------------
(* The lowering of the tree to the stream (SpecLower): the rewritten tree of a
   text is lowered by synthesize and run by InterpreterStream::run next to two
   references: the same tree with its If nodes read as the loops they were, and
   the same tree lowered with an LEnd for every Loop. *)

MaxLowerText == 3   \* every text up to this length over LowerAlphabet
MaxInner == 2       \* the body of the trailing loop in the nested texts
MaxLowerOut == 3    \* a run is followed until it has written more bytes than this

LowerAlphabet == {"+", "-", ">", "<", ".", "[", "]"}

Straight(len) == UNION {[1..k -> {"+", "-", ">", "<", "."}] : k \in 0..len}

\* a loop whose body ends with a loop, two and three deep, and a loop that
\* ends with [-]
TrailingTexts ==
    {<<"[">> \o a \o <<"[">> \o b \o <<"]", "]">> : a \in Straight(1), b \in Straight(MaxInner)}
    \cup {<<"[">> \o a \o <<"[", ">", "[">> \o b \o <<"]", "]", "]">> :
             a \in Straight(1), b \in Straight(1)}
    \cup {<<"[">> \o a \o <<"[", "-", "]", "]">> : a \in Straight(MaxInner)}
    \cup { <<"[", ",", "[", ".", "[", "-", "]", "]", "]">>,
           <<"[", ".", "[", ">", "[", "-", "]", "]", "<", "]">>,
           <<"[", "[", ".", ">", "]", "<", "[", ",", "]", "]">>,
           <<"[", ".", "[", "-", "]", "]", "[", ">", "[", "<", "]", "]">>,
           <<"[", "-", ">", "+", "<", "]", ">", "[", ".", "[", "-", "]", "]">>,
           <<"[", "[", "[", "-", ">", "]", "]", "]">>,
           <<"[", ".", "[", ",", "[", "-", "]", "]", "]">>,
           <<"[", ".", "[", "[", ">", "]", "<", "[", "-", "]", "]", "]">> }

LowerTexts ==
    UNION {[1..k -> LowerAlphabet] : k \in 0..MaxLowerText} \cup TrailingTexts

LowerCells == {CellOf(0, 8), CellOf(1, 8), CellOf(255, 8)}

\* the tree the four rewrites leave
Rewritten(src) ==
    rewrite_write_loops(find_if_conditions(rewrite_multiply(rewrite_zero(
        to_tree(Token_parse(src)).code))))

\* the tree with every If read as the Loop it was made from
RECURSIVE Unif(_)
Unif(tree) ==
    [k \in 1..Len(tree) |->
        IF tree[k].t \in {"If", "Loop", "WriteLoop"}
        THEN [tree[k] EXCEPT !.t = IF @ = "If" THEN "Loop" ELSE @, !.kids = Unif(@)]
        ELSE tree[k]]

Lowerings == <<"low", "loops", "sep">>

InitLower ==
    /\ \E src \in LowerTexts, n \in 1..MaxN :
         \E tape \in [1..n -> LowerCells], ptr \in 0..(n - 1), input \in {<<>>, <<1>>} :
            /\ to_tree(Token_parse(src)).err = "none"
            /\ input # <<>> => \E k \in 1..Len(src) : src[k] = ","
            /\ prog = [src |-> src, w |-> 8, tape |-> tape, ptr |-> ptr, input |-> input]
            /\ LET tree == Rewritten(src)
                   st == new(ptr, tape, input, FALSE).st
               IN  /\ compiled = [tree |-> tree,
                                  low |-> synthesize(tree),
                                  loops |-> synthesize(Unif(tree)),
                                  sep |-> synth_inner_separate(tree, 1, <<>>, <<>>)]
                   /\ mach = [t \in {"low", "loops", "sep"} |-> IS_new(st)]
    /\ hist = [turn |-> 1]
    /\ stream = Unused /\ exe = Unused /\ ref = Unused /\ first = Unused

\* the lowering whose step is next: the three runs take their steps in turn,
\* and a run that has ended is passed over
NextTurn(k, m) ==
    LET a == (k % 3) + 1
        b == (a % 3) + 1
    IN  IF m[Lowerings[a]].res = "run" THEN a
        ELSE IF m[Lowerings[b]].res = "run" THEN b ELSE k

LowerIter(t) ==
    /\ Lowerings[hist.turn] = t
    /\ mach[t].res = "run"
    /\ Len(mach[t].st.wr) + mach[t].cursor <= MaxLowerOut
    /\ LET m == [mach EXCEPT ![t] = IS_iter(compiled[t].code, compiled[t].table, @, prog.w)]
       IN  /\ mach' = m
           /\ hist' = [turn |-> NextTurn(hist.turn, m)]
    /\ UNCHANGED <<prog, stream, exe, ref, compiled, first>>

LowIter == LowerIter("low")
LoopsIter == LowerIter("loops")
SepIter == LowerIter("sep")

NextLower == LowIter \/ LoopsIter \/ SepIter

SpecLower ==
    InitLower /\ [][NextLower]_vars
    /\ WF_vars(LowIter) /\ WF_vars(LoopsIter) /\ WF_vars(SepIter)

\* the instruction at index i of a stream
At(c, i) == c[i + 1]

Indices(c, ops) == {i \in 0..(Len(c) - 1) : At(c, i).op \in ops}

\* what a start instruction is ended by
EndOf(op) == IF op = "WLStart" THEN "WLEnd" ELSE "LEnd"
StartOf(op) == IF op = "WLEnd" THEN "WLStart" ELSE "LStart"

\* the start at s points at the end that points back at s, and conversely
MutuallyPaired(c, starts) ==
    /\ \A s \in Indices(c, starts) :
          LET e == At(c, s).arg
          IN  e < Len(c) /\ At(c, e) = Ins(EndOf(At(c, s).op), s)
    /\ \A e \in Indices(c, {EndOf(op) : op \in starts}) :
          LET s == At(c, e).arg
          IN  s < e /\ At(c, s) = Ins(StartOf(At(c, e).op), e)

\* the nodes of a tree, at any depth, that satisfy Is
RECURSIVE CountNodes(_, _)
RECURSIVE CountFrom(_, _, _)
CountFrom(tree, k, kind) ==
    IF k > Len(tree) THEN 0
    ELSE LET node == tree[k]
             last == IF node.kids = <<>> THEN "none" ELSE node.kids[Len(node.kids)].t
             is == CASE kind = "OwnEnd" -> node.t = "Loop" /\ last # "Loop"
                     [] OTHER -> node.t = kind
         IN  (IF is THEN 1 ELSE 0) + CountNodes(node.kids, kind) + CountFrom(tree, k + 1, kind)
CountNodes(tree, kind) == CountFrom(tree, 1, kind)

CountOp(c, op) == Cardinality(Indices(c, {op}))

Synthesized == {"low", "loops"}

-----------------------------------------------------------------------------
(* The lowered If and the shared LEnd against the loops they stand for *)

Fin(t) == mach[t].res # "run"

\* what a run leaves behind: its result, the tape, the pointer, the input left
\* and the output
Outcome(t) ==
    <<mach[t].res, mach[t].st.cells, mach[t].st.ptr, mach[t].st.rd, mach[t].st.wr>>

\* the LStart instructions of the lowered stream that stand for an If
IfStarts == {s \in Indices(compiled.low.code, {"LStart"}) :
                At(compiled.low.code, At(compiled.low.code, s).arg).op # "LEnd"}

\* C25: a Loop whose last child is Zero, made an If and lowered as an LStart
\* whose target is the last instruction of the body, behaves as the loop: at
\* the LStart the run goes to the instruction after the body when the head is
\* zero and into the body otherwise, no LEnd leads back to the LStart, and the
\* run ends exactly when the run of the loops ends, with the same result, tape,
\* pointer, input and output.
IfLoweringPreserves ==
    /\ [](Fin("low") /\ Fin("loops") => Outcome("low") = Outcome("loops"))
    /\ [][\A s \in IfStarts :
             mach.low.res = "run" /\ mach.low.idx = s /\ mach.low' # mach.low =>
                /\ mach.low.st' = mach.low.st
                /\ mach.low.idx' = IF get(mach.low.st) = ZERO
                                   THEN At(compiled.low.code, s).arg + 1 ELSE s + 1]_vars
    /\ [](\A s \in IfStarts :
             /\ At(compiled.low.code, At(compiled.low.code, s).arg).op = "Zero"
             /\ \A e \in Indices(compiled.low.code, {"LEnd"}) :
                   At(compiled.low.code, e).arg # s)
    /\ Fin("low") ~> Fin("loops")
    /\ Fin("loops") ~> Fin("low")

\* the body of an If has run from a nonzero head, written a byte and zeroed
\* the head, and both runs have ended
IfLoweringWitness ==
    /\ IfStarts # {} /\ compiled.low.code # compiled.loops.code
    /\ get(new(prog.ptr, prog.tape, prog.input, FALSE).st) # ZERO
    /\ mach.low.res = "Ok" /\ mach.loops.res = "Ok"
    /\ mach.low.st.wr # <<>> /\ mach.low.st.cells # prog.tape

\* the loops that have no LEnd of their own
SharedEnds == CountNodes(compiled.tree, "Loop") - CountNodes(compiled.tree, "OwnEnd")

\* C26: a Loop whose body ends with a Loop is lowered without an LEnd of its
\* own, its LStart pointing at the LEnd of the inner loop, at any depth of such
\* trailing loops; the run of the stream ends exactly when the run of the
\* stream with an LEnd for every Loop ends, with the same result, tape,
\* pointer, input and output.
SharedEndPreserves ==
    /\ [](Fin("low") /\ Fin("sep") => Outcome("low") = Outcome("sep"))
    /\ [](/\ Len(compiled.sep.code) = Len(compiled.low.code) + SharedEnds
          /\ CountOp(compiled.sep.code, "LEnd") = CountNodes(compiled.tree, "Loop")
          /\ CountOp(compiled.low.code, "LEnd") = CountNodes(compiled.tree, "OwnEnd")
          /\ \A s \in Indices(compiled.low.code, {"LStart"}) \ IfStarts :
                At(compiled.low.code, At(compiled.low.code, s).arg).op = "LEnd")
    /\ Fin("low") ~> Fin("sep")
    /\ Fin("sep") ~> Fin("low")

\* three loops share one LEnd, the innermost has run and left through it, and
\* both runs have ended with the tape and the pointer changed
SharedEndWitness ==
    /\ SharedEnds >= 2
    /\ mach.low.res = "Ok" /\ mach.sep.res = "Ok"
    /\ mach.low.st.cells # prog.tape /\ mach.low.st.ptr # prog.ptr

-----------------------------------------------------------------------------
(* The jump points of the optimized stream (SpecJump): the executor runs the
   stream of a text from any tape and pointer *)

JumpTexts ==
    LowerTexts
    \cup { <<"[", "[", ">", "]", "[", "<", "]", "]">>,
           <<"[", "[", ".", "]", "-", "[", ">", "]", "]">>,
           <<"[", ",", "[", "[", "-", ">", "]", "<", "]", "]", "[", "]">>,
           <<"[", "[", ">", "]", "<", "-", "]", "[", "]">> }

InitJump ==
    /\ \E src \in JumpTexts, n \in 1..MaxN :
         \E tape \in [1..n -> LowerCells], ptr \in 0..(n - 1), input \in {<<>>, <<1>>} :
            /\ input # <<>> => \E k \in 1..Len(src) : src[k] = ","
            /\ prog = [src |-> src, w |-> 8, n |-> n, input |-> input]
            /\ stream = optimized_from_text(src, 8)
            /\ exe = [build(n, input, FALSE) EXCEPT !.data = tape, !.ptr = ptr]
    /\ stream.err = "none"
    /\ hist = [forward |-> FALSE, backward |-> FALSE]
    /\ ref = Unused /\ compiled = Unused /\ mach = Unused /\ first = Unused

JumpRun ==
    /\ exe.res = "idle"
    /\ exe' = run(stream.code, exe)
    /\ UNCHANGED <<prog, stream, ref, compiled, mach, first, hist>>

\* the instruction the executor is about to fetch
Fetched == IF exe.idx < Len(stream.code) THEN At(stream.code, exe.idx) ELSE Ins("none", 0)

JumpIter ==
    /\ exe.res = "run"
    /\ Len(exe.stdout) <= MaxLowerOut
    /\ exe' = internal_run_iter(FALSE, stream.code, exe, prog.w, FALSE)
    /\ hist' = [forward |-> hist.forward \/ (Fetched.op = "LStart" /\ cur_unchecked(exe) = ZERO),
                backward |-> hist.backward \/ (Fetched.op = "LEnd" /\ cur_unchecked(exe) # ZERO)]
    /\ UNCHANGED <<prog, stream, ref, compiled, mach, first>>

NextJump == JumpRun \/ JumpIter

SpecJump == InitJump /\ [][NextJump]_vars

\* the pairs of a stream: <<s, e>> for every LStart(e) at s
Pairs(c) == {<<s, At(c, s).arg>> : s \in Indices(c, {"LStart"})}

\* no pair begins inside another and ends outside it
ProperlyNested(c) ==
    \A p \in Pairs(c), q \in Pairs(c) : p[1] < q[1] /\ q[1] < p[2] => q[2] < p[2]

\* C24: in the stream optimized_from_text returns, every LStart(e) at s has
\* s < e < length and LEnd(s) at e, every LEnd(s) at e has LStart(e) at s, and
\* the pairs are properly nested; every step of the executor, the jumps at
\* LStart and LEnd among them, leaves the index at most at the length of the
\* stream, and a jump taken at LStart(e) or LEnd(s) leaves it at e + 1 or s + 1.
JumpsStayInside ==
    /\ [](MutuallyPaired(stream.code, {"LStart"}) /\ ProperlyNested(stream.code))
    /\ [][exe.res = "run" /\ exe' # exe =>
            /\ exe.idx' <= Len(stream.code)
            /\ Fetched.op = "LStart" =>
                 exe.idx' = IF cur_unchecked(exe) = ZERO THEN Fetched.arg + 1 ELSE exe.idx + 1
            /\ Fetched.op = "LEnd" =>
                 exe.idx' = IF cur_unchecked(exe) # ZERO THEN Fetched.arg + 1 ELSE exe.idx + 1]_vars

\* a run through a loop inside a loop has jumped forward and backward and
\* ended by running off the end of the stream
JumpsWitness ==
    /\ exe.res = "Ok" /\ hist.forward /\ hist.backward
    /\ \E p \in Pairs(stream.code), q \in Pairs(stream.code) : p[1] < q[1] /\ q[2] < p[2]

-----------------------------------------------------------------------------
(* The multiply predicate and the Multiply op (SpecAccept): as_multiply is
   given the body of a loop, accepted or not; the program with the loop is
   rewritten, lowered and, when no loop is left in it, run *)

MaxOtherBody == 3   \* bodies with writes and reads up to this length
MaxReach == 33      \* how far the long bodies move the head

\* bodies that go k cells to one side, add there, come back and decrement
Reaching(k) ==
    { Rep(">", k) \o <<"+">> \o Rep("<", k) \o <<"-">>,
      Rep("<", k) \o <<"+", "+">> \o Rep(">", k) \o <<"-">>,
      <<"-">> \o Rep(">", k) \o Rep("<", k) }

AcceptBodies ==
    MulTexts
    \cup UNION {[1..k -> {"+", "-", ">", "<", ".", ","}] : k \in 0..MaxOtherBody}
    \cup UNION {Reaching(k) : k \in (MaxReach - 3)..MaxReach}
    \cup { <<"-", ">", "[", "-", "]", "<">>, <<"-", "[", ">", "]">>,
           <<"[", "-", ">", "+", "<", "]", "-">>, <<"-", ">", "+", "<", "[", "-", "]">>,
           <<">", "+", "+", "+", "+", "+", "+", "+", "+", "<", "-">>,
           <<"<", "+", ">", ">", "+", "<", "-">> }

\* the program of the documentation around its loop, and the bare loop
AcceptFrames == {<<<<>>, <<>>>>, <<Rep("+", 6), <<">", ".">>>>}

InitAccept ==
    /\ \E body \in AcceptBodies, frame \in AcceptFrames, n \in 1..(MaxN + 1), v \in {0, 1, MaxHead} :
         \E p \in 0..(n - 1), far \in BOOLEAN :
            /\ frame[1] # <<>> => body = <<">", "+", "+", "+", "+", "+", "+", "+", "+", "<", "-">>
            /\ frame[1] # <<>> => v = 0 /\ p = 0
            /\ far => Len(body) > 2 * (MaxReach - 3) /\ n = MaxN + 1
            /\ LET len == IF far THEN n + 2 * MaxReach ELSE n
                   at == IF far THEN p + MaxReach ELSE p
               IN  prog = [body |-> body, src |-> frame[1] \o LoopOf(body) \o frame[2],
                           w |-> 8, n |-> len, p |-> at,
                           tape |-> TapeWith(len, at, CellOf(v, 8),
                                             IF frame[1] # <<>> THEN ZERO ELSE CellOf(1, 8))]
    /\ compiled = [res |-> Unused, low |-> Unused]
    /\ mach = IS_new(new(prog.p, prog.tape, <<>>, FALSE).st)
    /\ hist = [pc |-> "body"]
    /\ stream = Unused /\ exe = Unused /\ ref = Unused /\ first = Unused

\* the body as rewrite_multiply meets it: after rewrite_zero
BodyTree == rewrite_zero(to_tree(Token_parse(prog.body)).code)

AsMultiply ==
    /\ hist.pc = "body"
    /\ compiled' = [compiled EXCEPT !.res = as_multiply(BodyTree)]
    /\ hist' = [pc |-> "program"]
    /\ UNCHANGED <<prog, stream, exe, ref, mach, first>>

\* the rewrites and the lowering of the whole program
RewriteMultiply ==
    /\ hist.pc = "program"
    /\ compiled' = [compiled EXCEPT !.low = synthesize(Rewritten(prog.src))]
    /\ hist' = [pc |-> "run"]
    /\ UNCHANGED <<prog, stream, exe, ref, mach, first>>

\* InterpreterStream::run on a stream without loops
AcceptIter ==
    /\ hist.pc = "run" /\ mach.res = "run"
    /\ Indices(compiled.low.code, {"LStart", "WLStart"}) = {}
    /\ mach' = IS_iter(compiled.low.code, compiled.low.table, mach, prog.w)
    /\ UNCHANGED <<prog, stream, exe, ref, compiled, first, hist>>

NextAccept == AsMultiply \/ RewriteMultiply \/ AcceptIter

SpecAccept == InitAccept /\ [][NextAccept]_vars

\* where the head is, relative to its start, after the first i bytes of a body
HeadAfter(body, i) ==
    Cardinality({k \in 1..i : body[k] = ">"}) - Cardinality({k \in 1..i : body[k] = "<"})

\* what the body adds to the cell at offset off
NetChange(body, off) ==
    Cardinality({k \in 1..Len(body) : body[k] = "+" /\ HeadAfter(body, k) = off})
    - Cardinality({k \in 1..Len(body) : body[k] = "-" /\ HeadAfter(body, k) = off})

\* the three conditions: moves and changes only, the head back at its start,
\* one less in the head cell
CountsDown(body) ==
    /\ \A k \in 1..Len(body) : body[k] \in {"+", "-", ">", "<"}
    /\ HeadAfter(body, Len(body)) = 0
    /\ NetChange(body, 0) = -1

\* the head stays on the scratch cells of as_multiply
OnScratch(body) ==
    \A i \in 0..Len(body) :
        0 - Z_OFFSET <= HeadAfter(body, i) /\ HeadAfter(body, i) < MINIVM_LEN - Z_OFFSET

\* the offsets a body reaches
Reach(body) == {HeadAfter(body, i) : i \in 0..Len(body)}

\* one MulArg for every offset other than 0 with a net change, holding it
ArgsAreNetChanges ==
    LET args == compiled.res.args
        want == {<<off, NetChange(prog.body, off)>> :
                    off \in {o \in Reach(prog.body) : o # 0 /\ NetChange(prog.body, o) # 0}}
    IN  /\ {args[i] : i \in 1..Len(args)} = want
        /\ Len(args) = Cardinality(want)

\* the program of the documentation, on a tape with a cell to the right,
\* writes the byte 0x30
DocumentedOutput ==
    hist.pc = "run" /\ prog.src # LoopOf(prog.body) /\ mach.res # "run" =>
        IF prog.n > 1 THEN mach.res = "Ok" /\ mach.st.wr = <<48>>
        ELSE mach.res = "Overflow" /\ mach.st.wr = <<>>

\* the accepted loop is one Multiply op and nothing else
OneMultiply ==
    /\ CountOp(compiled.low.code, "Multiply") = 1
    /\ Indices(compiled.low.code, {"LStart", "LEnd", "WLStart", "WLEnd", "Zero"}) = {}

\* C27 as stated: as_multiply accepts a body exactly when it holds only Inc,
\* Dec, IncPtr and DecPtr, brings the head back and takes one from the head
\* cell; it then emits one MulArg with the net change for every other offset
\* whose net change is not zero, and the loop becomes one Multiply op.
AcceptsCountingDown ==
    /\ hist.pc # "body" =>
          /\ compiled.res.ok <=> CountsDown(prog.body)
          /\ compiled.res.ok => ArgsAreNetChanges
    /\ hist.pc = "run" /\ compiled.res.ok => OneMultiply
    /\ DocumentedOutput

\* C27: as_multiply accepts a body exactly when it holds only Inc, Dec, IncPtr
\* and DecPtr, keeps the head within 32 cells to the left and 31 to the right
\* of its start, brings the head back and takes one from the head cell; it
\* then emits one MulArg with the net change for every other offset whose net
\* change is not zero, and the loop becomes one Multiply op unless its body is
\* the single `-`, which rewrite_zero has made a Zero before;
\* `++++++[>++++++++<-]>.` holds one Multiply and writes the byte 0x30.
AcceptsCountingDownOnScratch ==
    /\ hist.pc # "body" =>
          /\ compiled.res.ok <=> (CountsDown(prog.body) /\ OnScratch(prog.body))
          /\ compiled.res.ok => ArgsAreNetChanges
    /\ hist.pc = "run" /\ compiled.res.ok =>
          IF zero_in_loop(BodyTree) THEN compiled.low.code = <<Ins("Zero", 0)>>
          ELSE OneMultiply
    /\ DocumentedOutput

\* the program of the documentation has been rewritten and run: one Multiply
\* with the one MulArg (1, 8), and 0x30 written
AcceptsWitness ==
    /\ prog.src # LoopOf(prog.body) /\ mach.res = "Ok"
    /\ compiled.res.ok /\ compiled.res.args = <<<<1, 8>>>>
    /\ mach.st.wr = <<48>>

\* a body that counts down and leaves the scratch cells has been refused
RefusedOffScratch ==
    /\ hist.pc = "run" /\ CountsDown(prog.body) /\ ~OnScratch(prog.body) /\ ~compiled.res.ok

-----------------------------------------------------------------------------
(* BfState::mul in the runs of SpecAccept *)

\* the run is about to execute a Multiply
AtMultiply ==
    /\ hist.pc = "run" /\ mach.res = "run" /\ mach.idx < Len(compiled.low.code)
    /\ At(compiled.low.code, mach.idx).op = "Multiply"

\* the recipe of the Multiply about to be executed
Recipe == compiled.low.table[At(compiled.low.code, mach.idx).arg + 1]

BelowTape == mach.st.ptr + Recipe.range[1] < 0
AboveTape == mach.st.ptr + Recipe.range[2] >= Len(mach.st.cells)

\* mul leaves the pointer, and everything when it fails
MulFrame ==
    AtMultiply /\ mach' # mach =>
        /\ mach.st.ptr' = mach.st.ptr
        /\ mach.res' \in {"run", "Underflow", "Overflow"}
        /\ mach.res' # "run" => mach.st' = mach.st

\* C28 as stated: mul fails before it changes anything, never moves the
\* pointer, reports Underflow exactly when p + range.start < 0 and Overflow
\* exactly when p + range.end >= N.
MulChecksEachBound ==
    [][/\ MulFrame
       /\ AtMultiply /\ mach' # mach =>
             /\ mach.res' = "Underflow" <=> BelowTape
             /\ mach.res' = "Overflow" <=> AboveTape]_vars

\* C28: mul fails before it changes anything (the head is not zeroed, no cell
\* is changed), never moves the pointer, reports Underflow exactly when
\* p + range.start < 0, and Overflow exactly when p + range.start >= 0 and
\* p + range.end >= N.
MulChecksLowerFirst ==
    [][/\ MulFrame
       /\ AtMultiply /\ mach' # mach =>
             /\ mach.res' = "Underflow" <=> BelowTape
             /\ mach.res' = "Overflow" <=> (~BelowTape /\ AboveTape)]_vars

\* a Multiply with MulArgs on both sides has failed on a tape it leaves on
\* both sides, from a head that is not zero: Underflow, the tape as it was
MulChecksWitness ==
    /\ hist.pc = "run" /\ mach.res = "Underflow" /\ mach.idx = 0
    /\ compiled.res.ok /\ Len(compiled.res.args) = 2
    /\ mach.st.ptr + compiled.res.range[2] >= Len(mach.st.cells)
    /\ get(mach.st) # ZERO /\ mach.st.cells = prog.tape

\* C29: the range as_multiply records holds 0 and the offset of every MulArg
\* it emits, so a Multiply whose range check passes writes only to cells of
\* the tape: p + offset lies in 0..N-1 for every MulArg.
MulArgsInRange ==
    /\ [](hist.pc # "body" /\ compiled.res.ok =>
            /\ compiled.res.range[1] <= 0 /\ 0 <= compiled.res.range[2]
            /\ \A i \in 1..Len(compiled.res.args) :
                  /\ compiled.res.range[1] <= compiled.res.args[i][1]
                  /\ compiled.res.args[i][1] <= compiled.res.range[2])
    /\ [][AtMultiply /\ mach.res' = "run" /\ mach' # mach =>
            /\ ~BelowTape /\ ~AboveTape
            /\ Recipe.range = compiled.res.range /\ Recipe.args = compiled.res.args
            /\ \A i \in 1..Len(Recipe.args) :
                  /\ 0 <= mach.st.ptr + Recipe.args[i][1]
                  /\ mach.st.ptr + Recipe.args[i][1] < Len(mach.st.cells)]_vars

\* a Multiply reaching MaxReach - 2 cells to the left has passed its range
\* check and changed the cell there
MulArgsWitness ==
    /\ hist.pc = "run" /\ mach.res = "Ok" /\ compiled.res.ok
    /\ compiled.res.range[1] = 2 - MaxReach
    /\ \E i \in 1..Len(compiled.res.args) : compiled.res.args[i][1] = 2 - MaxReach
    /\ mach.st.cells # prog.tape /\ mach.st.cells[prog.p + 3 - MaxReach] # CellOf(1, 8)

-----------------------------------------------------------------------------
(* The write loops of the rewritten tree (SpecLower) *)

\* some node of the tree, at any depth, is of one of the kinds
RECURSIVE Holds(_, _)
Holds(tree, kinds) ==
    \E k \in 1..Len(tree) : tree[k].t \in kinds \/ Holds(tree[k].kids, kinds)

\* the bodies of the WriteLoop nodes of a tree
RECURSIVE WriteLoopBodies(_)
WriteLoopBodies(tree) ==
    UNION {(IF tree[k].t = "WriteLoop" THEN {tree[k].kids} ELSE {})
               \cup WriteLoopBodies(tree[k].kids) : k \in 1..Len(tree)}

\* C30 as stated: the body of every WriteLoop that rewrite_write_loops makes
\* holds a Write, holds no Read, Loop or WriteLoop at any depth, the bodies of
\* nested If included, and counts fewer than 32 nodes with the bodies of
\* nested If.
WriteLoopsHoldNoReadNoLoop ==
    \A body \in WriteLoopBodies(compiled.tree) :
        /\ Holds(body, {"Write"})
        /\ ~Holds(body, {"Read", "Loop", "WriteLoop"})
        /\ terminating_nested_len(body) < BUF

-----------------------------------------------------------------------------
(* SpecWLoop: InterpreterStream::run over programs with write loops, followed *)
(* far enough for the 32-byte buffer to fill and be handed on more than once. *)

MaxWrites == 70     \* a run is followed until it has executed this many writes
MaxWInput == 3      \* input bytes given to a write-loop program

WLoopTexts ==
    { <<"+", "[">> \o Rep(".", 33) \o <<"-", "]">>,
      <<"+", "[">> \o Rep(".", 32) \o <<"-", "]", ".">>,
      <<"+", "+", "[">> \o Rep(".", 17) \o <<"-", "]">>,
      <<"+", "[", ".", "-", "]">>,
      <<"[", ".", "]", ".">>,
      <<",", "[", ".", "-", "]", ".">>,
      <<"+", "[", ".", "+", "]">>,
      <<"+", "[", ".", ">", "]">>,
      <<"+", "[", ".", "<", "]">>,
      <<".", "+", "[", ".", "-", "]", ".">>,
      <<"+", "[", ".", "-", "]", "+", "[", ".", ".", "-", "]">>,
      <<",", "[", ".", ">", ",", "]">>,
      <<"+", "[", ".", "[", "-", "]", "]", ".">>,
      <<".", ">", ".">> }

InitWLoop ==
    /\ \E src \in WLoopTexts, w \in Widths, n \in 1..MaxN, b \in 0..MaxWInput :
          /\ prog = [src |-> src, w |-> w, n |-> n,
                     input |-> IF \E k \in 1..Len(src) : src[k] = "," THEN <<b, 0>> ELSE <<>>]
          /\ b > 0 => \E k \in 1..Len(src) : src[k] = ","
    /\ compiled = ir_compile(prog.src)
    /\ mach = IS_new(BfState_new(prog.n, prog.input, FALSE))
    /\ hist = [writes |-> <<>>]
    /\ stream = Unused /\ exe = Unused /\ ref = Unused /\ first = Unused

\* the instruction the run fetches next
WFetched ==
    IF mach.res = "run" /\ mach.idx < Len(compiled.code)
    THEN compiled.code[mach.idx + 1].op ELSE "none"

WLoopIter ==
    /\ compiled.err = "none" /\ mach.res = "run"
    /\ Len(hist.writes) < MaxWrites
    /\ mach' = IS_iter(compiled.code, compiled.table, mach, prog.w)
    /\ hist' = IF WFetched = "Write"
               THEN [hist EXCEPT !.writes = Append(@, truncate_u8(get(mach.st)))]
               ELSE hist
    /\ UNCHANGED <<prog, stream, exe, ref, compiled, first>>

NextWLoop == WLoopIter

SpecWLoop == InitWLoop /\ [][NextWLoop]_vars

\* C31: in InterpreterStream::run the cursor lies in 0..32 and is 0 whenever
\* write-loop mode is off; a WLEnd that falls through leaves write-loop mode
\* with the buffer empty and with every buffered byte given to the writer,
\* after the bytes given before and in the order written, before the next
\* instruction is fetched.
WriteBufferKept ==
    /\ [](/\ 0 <= mach.cursor /\ mach.cursor <= BUF
          /\ ~mach.wloop => mach.cursor = 0)
    /\ [][(WLoopIter /\ WFetched = "WLEnd" /\ get(mach.st) = ZERO) =>
            /\ mach.res' = "run" /\ mach.idx' = mach.idx + 1
            /\ mach.wloop' = FALSE /\ mach.cursor' = 0
            /\ mach.st.wr' = mach.st.wr \o SubSeq(mach.wbuf, 1, mach.cursor)
            /\ mach.wloop => mach.st.wr' = hist.writes]_vars

\* a write loop has filled the buffer, gone on writing and ended: the run is
\* over, its bytes are with the writer and the buffer is empty
WriteBufferWitness ==
    /\ mach.res = "Ok"
    /\ Len(hist.writes) > BUF
    /\ mach.st.wr = hist.writes
    /\ mach.cursor = 0 /\ ~mach.wloop

-----------------------------------------------------------------------------
(* SpecCache: the direct interpreter over texts with balanced and unbalanced *)
(* brackets, with a record of which scan first cached each position.         *)

MaxCacheText == 5   \* every text of + - [ ] up to this length is run

CacheAlphabet == {"+", "-", "[", "]"}

\* loops entered first with a nonzero and later with a zero head (and the
\* other way round), so that each scan's entries answer the other's jumps
CacheTexts ==
    UNION {[1..len -> CacheAlphabet] : len \in 0..MaxCacheText}
    \cup { <<"+", "+", ">", "+", "+", "<", "[", ">", "[", "-", "]", "<", "-", "]">>,
           <<"+", "+", "[", ">", "[", "-", "]", "+", "+", "<", "-", "]">>,
           <<"+", "+", "[", ">", "[", "[", "-", "]", "]", "+", "+", "<", "-", "]">>,
           <<"+", "+", ">", "+", "+", "<", "[", ">", "[", "-", "]", "<", "-", "]",
             "+", "+", "[", ">", "[", "-", "]", "+", "+", "<", "-", "]">>,
           <<"+", "[", ">", "]", "<">>,
           <<"[", "]", ">", "+", "]">>,
           <<"+", ">", "[", "[", "]">>,
           <<"[", "[", ">", "]", "+", "]", "+", "]", "<">>,
           <<"+", ">", "[", "<", "]", "[", "[", "]">> }

InitCache ==
    /\ \E src \in CacheTexts, n \in 1..MaxN : prog = [src |-> src, n |-> n, w |-> 8]
    /\ mach = stupid_new(prog.n, <<>>, FALSE)
    /\ hist = [f |-> {}, b |-> {}, op |-> "none", hit |-> FALSE, seen |-> {}]
    /\ stream = Unused /\ exe = Unused /\ ref = Unused /\ compiled = Unused
    /\ first = Unused

CacheRun ==
    /\ mach.res = "idle"
    /\ mach' = stupid_run_entry(mach)
    /\ UNCHANGED <<prog, stream, exe, ref, compiled, first, hist>>

\* the bracket whose jump the next pass of the loop takes, "none" otherwise
Jumping ==
    IF mach.res = "run" /\ mach.idx < Len(prog.src)
    THEN LET b == prog.src[mach.idx + 1]
         IN  IF b = "[" /\ stupid_get(mach) = ZERO THEN "["
             ELSE IF b = "]" /\ stupid_get(mach) # ZERO THEN "]" ELSE "none"
    ELSE "none"

Keys(cache) == {kv[1] : kv \in cache}

CacheIter ==
    /\ mach.res = "run"
    /\ mach' = stupid_iter(prog.src, mach, prog.w)
    /\ hist' = LET fresh == Keys(mach'.cache) \ Keys(mach.cache)
               IN  [f |-> IF Jumping = "[" THEN hist.f \cup fresh ELSE hist.f,
                    b |-> IF Jumping = "]" THEN hist.b \cup fresh ELSE hist.b,
                    op |-> Jumping,
                    hit |-> Jumping # "none" /\ Cached(mach.cache, mach.idx),
                    seen |-> IF Jumping = "none" \/ ~Cached(mach.cache, mach.idx)
                             THEN hist.seen
                             ELSE hist.seen
                                  \cup (IF Jumping = "]" /\ mach.idx \in hist.f
                                        THEN {"forward, then backward"} ELSE {})
                                  \cup (IF Jumping = "[" /\ mach.idx \in hist.b
                                        THEN {"backward, then forward"} ELSE {})]
    /\ UNCHANGED <<prog, stream, exe, ref, compiled, first>>

NextCache == CacheRun \/ CacheIter

SpecCache == InitCache /\ [][NextCache]_vars

\* counting bracket depth from the `[` at k (0-based) forward: the first
\* place where the depth is back at zero; -1 when there is none
Opens(v, a, b) == Cardinality({j \in a..b : v[j + 1] = "["})
Closes(v, a, b) == Cardinality({j \in a..b : v[j + 1] = "]"})

ForwardMatch(v, k) ==
    LET ms == {m \in k..(Len(v) - 1) : Opens(v, k, m) = Closes(v, k, m)}
    IN  IF ms = {} THEN -1 ELSE CHOOSE m \in ms : \A x \in ms : m <= x

\* counting from the `]` at k backward: the nearest place where the depth is
\* back at zero; -1 when there is none
BackwardMatch(v, k) ==
    LET ms == {m \in 0..k : Opens(v, m, k) = Closes(v, m, k)}
    IN  IF ms = {} THEN -1 ELSE CHOOSE m \in ms : \A x \in ms : m >= x

TrueMatch(v, k) ==
    IF v[k + 1] = "[" THEN ForwardMatch(v, k) ELSE BackwardMatch(v, k)

\* C32: at every point of a run of the direct interpreter every cache entry
\* maps a bracket to the bracket a depth count finds for it, and its mirror
\* entry is in the cache too; every jump taken, answered from the cache or by
\* a scan, continues after the bracket a fresh depth count finds, whichever
\* scan first cached the pair.
CacheHoldsTrueMatches ==
    /\ [](mach.res # "idle" =>
            \A kv \in mach.cache :
                /\ kv[1] \in 0..(Len(prog.src) - 1)
                /\ prog.src[kv[1] + 1] \in {"[", "]"}
                /\ kv[2] = TrueMatch(prog.src, kv[1])
                /\ <<kv[2], kv[1]>> \in mach.cache
                /\ \A o \in mach.cache : o[1] = kv[1] => o = kv)
    /\ [][(CacheIter /\ Jumping # "none" /\ mach.res' = "run") =>
            /\ mach.idx' = TrueMatch(prog.src, mach.idx) + 1
            /\ <<mach.idx, mach.idx' - 1>> \in mach.cache'
            /\ Cached(mach.cache, mach.idx) => mach.cache' = mach.cache]_vars

\* in one run a `]` has jumped on an entry a forward scan had made first and
\* a `[` on an entry a backward scan had made first
CacheServesBothWays ==
    /\ hist.seen = {"forward, then backward", "backward, then forward"}
    /\ mach.res = "Ok" /\ mach.cache # {}

\* C33: in the direct interpreter a `[` taken with a zero head for which a
\* depth count finds no `]` ends the run in LoopCountMismatch, a `]` taken
\* with a nonzero head for which a depth count finds no `[` ends it in
\* LoopEndBeforeLoopStart, in both cases with tape, pointer and index as they
\* were; a run ends in one of the two errors in no other step.
UnmatchedJumpFails ==
    [][CacheIter =>
        LET lost == Jumping # "none" /\ TrueMatch(prog.src, mach.idx) = -1
        IN  /\ lost =>
                /\ mach.res' = IF Jumping = "[" THEN "LoopCountMismatch"
                               ELSE "LoopEndBeforeLoopStart"
                /\ mach.data' = mach.data /\ mach.ptr' = mach.ptr
                /\ mach.idx' = mach.idx /\ mach.wr' = mach.wr
            /\ mach.res' \in {"LoopCountMismatch", "LoopEndBeforeLoopStart"} => lost]_vars

\* a `]` with no `[` has ended a run that had moved the pointer, changed the
\* tape and cached a pair before
UnmatchedJumpWitness ==
    /\ mach.res = "LoopEndBeforeLoopStart"
    /\ mach.ptr > 0 /\ stupid_get(mach) # ZERO /\ mach.cache # {}
    /\ hist.op = "]" /\ ~hist.hit

-----------------------------------------------------------------------------
(* SpecRuns: one run of n equal bytes, with or without a comment byte inside *)
(* and with or without brackets round it, given to BTapeStream::from_bf and  *)
(* run, beside the direct interpreter applying the same bytes one by one.    *)

MaxRunLen == 70     \* runs of 1..MaxRunLen bytes: two chunks of 32 and a rest
MaxBracketed == 2   \* runs up to this length are also put in brackets

RunOps == {"+", "-", ">", "<"}

RunTape == MaxRunLen + 2

\* the run with a comment byte after its first c bytes (c = -1: no comment)
RunText(op, n, c) ==
    IF c < 0 THEN Rep(op, n) ELSE Rep(op, c) \o <<"x">> \o Rep(op, n - c)

InitRuns ==
    /\ \E op \in RunOps, n \in 1..MaxRunLen, c \in {-1, 0, 1},
          p \in {0, 31, 40, RunTape - 1}, head \in {0, 250}, br \in BOOLEAN :
          /\ c <= n
          /\ br => n <= MaxBracketed /\ op \in {"+", "-"} /\ c < 1
          /\ op \in {"+", "-"} => p = 0
          /\ op \in {">", "<"} => head = 0
          /\ prog = [op |-> op, n |-> n, br |-> br, p |-> p,
                     src |-> IF br THEN <<"[">> \o RunText(op, n, c) \o <<"]">>
                             ELSE RunText(op, n, c)]
          /\ compiled = from_bf(prog.src)
          /\ mach = [bt |-> BT_new([BfState_new(RunTape, <<>>, FALSE)
                                      EXCEPT !.ptr = p, !.cells[p + 1] = CellOf(head, 8)]),
                     direct |-> [stupid_run_entry(stupid_new(RunTape, <<>>, FALSE))
                                      EXCEPT !.ptr = p, !.data[p + 1] = CellOf(head, 8)]]
    /\ stream = Unused /\ exe = Unused /\ ref = Unused /\ first = Unused
    /\ hist = Unused

RunsBT ==
    /\ compiled.err = "none" /\ mach.bt.res = "run"
    /\ mach' = [mach EXCEPT !.bt = BT_iter(compiled.code, compiled.map, @, 8)]
    /\ UNCHANGED <<prog, stream, exe, ref, compiled, first, hist>>

RunsDirect ==
    /\ mach.bt.res # "run" /\ mach.direct.res = "run"
    /\ mach' = [mach EXCEPT !.direct = stupid_iter(prog.src, @, 8)]
    /\ UNCHANGED <<prog, stream, exe, ref, compiled, first, hist>>

NextRuns == RunsBT \/ RunsDirect

SpecRuns == InitRuns /\ [][NextRuns]_vars

RunInstr ==
    CASE prog.op = "+" -> I_Inc [] prog.op = "-" -> I_Dec
      [] prog.op = ">" -> I_IncPtr [] prog.op = "<" -> I_DecPtr

RunMany == IF prog.op = ">" THEN W_IncPtrMany ELSE W_DecPtrMany

\* the bytes emitted for the run: the stream without the bytes of the brackets
RunBytes ==
    IF prog.br THEN SelectSeq(compiled.code,
                              LAMBDA b : decode(b)[1] \notin {I_LStart, I_LEnd, I_Zero})
    ELSE compiled.code

\* how often run() applies the operation when it decodes bytes from index i
RECURSIVE Applications(_, _)
Applications(bytes, i) ==
    IF i > Len(bytes) THEN 0
    ELSE LET d == decode(bytes[i])
         IN  IF d[1] = RunInstr THEN d[2] + 1 + Applications(bytes, i + 1)
             ELSE IF d[1] = I_Wild /\ d[2] = RunMany /\ prog.op \in {">", "<"}
             THEN from_le_bytes(SubSeq(bytes, i + 1, i + 8)) + Applications(bytes, i + 9)
             ELSE Applications(bytes, i + 1)

\* the layout the run's bytes have
RunLayout ==
    LET n == prog.n
        k == Len(RunBytes)
    IN  IF prog.op \in {"+", "-"}
        THEN /\ k = (n \div 32) + (IF n % 32 # 0 THEN 1 ELSE 0)
             /\ \A j \in 1..k : decode(RunBytes[j])[1] = RunInstr
             /\ \A j \in 1..(n \div 32) : decode(RunBytes[j])[2] = 31
        ELSE IF n < 32 THEN RunBytes = <<with(RunInstr, n - 1)>>
        ELSE /\ k = 9 /\ RunBytes[1] = wild(RunMany)
             /\ SubSeq(RunBytes, 2, 9) = to_le_bytes(n, 8)

\* the byte tape and the direct interpreter have both ended, in the same way
\* and, if without error, with the same tape and pointer
RunsAgree ==
    (mach.bt.res # "run" /\ mach.direct.res # "run") =>
        /\ mach.bt.res = mach.direct.res
        /\ mach.bt.res = "Ok" =>
              /\ mach.bt.st.cells = mach.direct.data
              /\ mach.bt.st.ptr = mach.direct.ptr

\* the sentence as it stands: every run is emitted as bytes that decode to n
\* applications
EveryRunDecodesToN ==
    compiled.err = "none" /\ Applications(RunBytes, 1) = prog.n /\ RunLayout /\ RunsAgree

\* the single `+` or `-` of `[+]` / `[-]`
UnitInBrackets == prog.br /\ prog.n = 1

\* C34: the bytes rewrite emits for a run of n equal + - > < (comment bytes
\* dropped) decode under run() to n applications, laid out as the chunks of 32
\* and the rest, the one byte with operand n - 1, or the ...Many byte with n
\* in 8 little-endian bytes, and leave the tape and pointer n single
\* applications leave; the run that is the single + or - of `[+]` / `[-]` is
\* emitted with its brackets as one Zero byte instead.
RunsDecodeToN ==
    /\ compiled.err = "none"
    /\ IF UnitInBrackets THEN compiled.code = <<with(I_Zero, 0)>>
       ELSE Applications(RunBytes, 1) = prog.n /\ RunLayout
    /\ RunsAgree

\* a run of two chunks and a rest with a comment inside has been run from a
\* head that wraps, and the direct interpreter has applied its bytes one by one
RunsDecodeWitness ==
    /\ prog.op = "+" /\ prog.n > 64 /\ Len(prog.src) > prog.n
    /\ mach.bt.res = "Ok" /\ mach.direct.res = "Ok"
    /\ get(mach.bt.st) = CellOf(250 + prog.n, 8)
    /\ Len(compiled.code) = 3

-----------------------------------------------------------------------------
(* SpecBT: BTapeStream::from_bf and run over loops whose brackets lie up to *)
(* and beyond 31 bytes apart and over ...Many moves inside loops.           *)

MaxSpan == 33       \* loop bodies of 0..MaxSpan bytes of the stream
ManyMoves == {32, 33, 128, 160}     \* run lengths of the ...Many moves
BTTape == 161       \* tape length for the texts with ...Many moves

\* k pairs + -, each byte a run of its own
Zigzag(k) == [i \in 1..(2 * k) |-> IF i % 2 = 1 THEN "+" ELSE "-"]

\* a loop whose body takes b bytes of the stream and takes one from the head
Span(b) ==
    <<"[">>
    \o (IF b = 0 THEN <<>>
        ELSE IF b % 2 = 1 THEN <<"-">> \o Zigzag((b - 1) \div 2)
        ELSE <<"+", "-", "-">> \o Zigzag((b - 2) \div 2))
    \o <<"]">>

There(n) == Rep(">", n) \o Rep("<", n)

BTTexts ==
    {Span(k) : k \in 0..MaxSpan}
    \cup {<<"+", "+">> \o Span(k) : k \in 0..MaxSpan}
    \cup {<<"+", "+", "[">> \o Span(k) \o <<"+", "+">> \o Span(k) \o <<"]">> : k \in {0, 12, 13}}
    \cup {<<"[", "]", "[">> \o There(33) \o There(33) \o <<"]", "+", "+", "[", ">", "<", "-", "]",
              "+", "+", "[">> \o There(33) \o There(33) \o <<"-", "]">>}
    \cup {<<"[", "]", "+", "+", "[">> \o There(n) \o <<"-", "]">> : n \in ManyMoves}
    \cup {<<"+", "+", "[">> \o There(33) \o There(128) \o There(160) \o There(32)
              \o <<"-", "]", "[">> \o There(160) \o There(128) \o There(33) \o There(32)
              \o <<"]">>,
          <<"+", "[", "[">> \o Rep(">", 160) \o <<"]", "]">>,
          Rep(">", 128) \o <<"+", "[", "-">> \o Rep("<", 128) \o <<"]">>,
          Rep(">", 160) \o <<"[">>,
          <<"]">> \o Rep(">", 128) }

InitBT ==
    /\ \E src \in BTTexts \cup AllTexts(MaxProgLen) :
          prog = [src |-> src,
                  n |-> IF \E i \in 1..Len(src) : src[i] = ">" /\ Len(src) > MaxProgLen
                        THEN BTTape ELSE MaxN]
    /\ compiled = from_bf(prog.src)
    /\ mach = BT_new(BfState_new(prog.n, <<>>, FALSE))
    /\ hist = {}
    /\ stream = Unused /\ exe = Unused /\ ref = Unused /\ first = Unused

\* the jump the next pass of run takes: direction and where the target is
\* found; "none" when it takes none
BTJump ==
    IF compiled.err # "none" \/ mach.res # "run" \/ ~(mach.idx < Len(compiled.code))
    THEN "none"
    ELSE LET d == decode(compiled.code[mach.idx + 1])
             how == IF d[2] # 0 THEN "inline" ELSE "map"
         IN  IF d[1] = I_LStart /\ jump_forward(mach.st) THEN <<"forward", how>>
             ELSE IF d[1] = I_LEnd /\ jump_backward(mach.st) THEN <<"backward", how>>
             ELSE "none"

BTStep ==
    /\ compiled.err = "none" /\ mach.res = "run"
    /\ Len(mach.st.wr) <= MaxOut
    /\ mach' = BT_iter(compiled.code, compiled.map, mach, 8)
    /\ hist' = IF mach.idx < Len(compiled.code)
                  /\ decode(compiled.code[mach.idx + 1])[1] \in {I_LStart, I_LEnd}
                  /\ (decode(compiled.code[mach.idx + 1])[1] = I_LStart) = jump_forward(mach.st)
               THEN hist \cup {BTJump} ELSE hist
    /\ UNCHANGED <<prog, stream, exe, ref, compiled, first>>

NextBT == BTStep

SpecBT == InitBT /\ [][NextBT]_vars

\* the indices at which a walk from 0 that passes over the 8 bytes after each
\* ...Many byte finds an opcode
OpcodeAt(code) ==
    LET many == {i \in 0..(Len(code) - 1) : IsMany(code[i + 1])}
        RECURSIVE covered(_)
        \* operand bytes: the 8 after a ...Many that is not itself an operand
        covered(i) == \E m \in many : m < i /\ i <= m + 8 /\ ~covered(m)
    IN  {i \in 0..(Len(code) - 1) : ~covered(i)}

Brackets(code, op) == {i \in OpcodeAt(code) : decode(code[i + 1])[1] = op}

\* the partner a count of bracket depth over the opcodes finds: -1 if none
PartnerOf(code, k) ==
    LET open(a, b) == Cardinality({i \in Brackets(code, I_LStart) : a <= i /\ i <= b})
        close(a, b) == Cardinality({i \in Brackets(code, I_LEnd) : a <= i /\ i <= b})
        ms == IF decode(code[k + 1])[1] = I_LStart
              THEN {m \in Brackets(code, I_LEnd) : m > k /\ open(k, m) = close(k, m)}
              ELSE {m \in Brackets(code, I_LStart) : m < k /\ open(m, k) = close(m, k)}
    IN  IF ms = {} THEN -1
        ELSE CHOOSE m \in ms : \A x \in ms : IF m > k THEN m <= x ELSE m >= x

\* C35: after insert_loop has succeeded every bracket byte has a partner;
\* brackets at most 31 bytes apart both carry their distance (never 0),
\* brackets further apart both carry 0 and are in the oversized map in both
\* directions, and the map holds nothing else; in a run a bracket with
\* operand 0 is always a key of the map and every jump taken continues
\* after the partner bracket.
JumpsLandOnPartner ==
    /\ [](compiled.err = "none" =>
            LET code == compiled.code
                all == Brackets(code, I_LStart) \cup Brackets(code, I_LEnd)
            IN  /\ \A k \in all :
                     LET m == PartnerOf(code, k)
                         far == IF m > k THEN m - k ELSE k - m
                     IN  /\ m # -1 /\ PartnerOf(code, m) = k
                         /\ IF far <= 31
                            THEN /\ decode(code[k + 1])[2] = far /\ far # 0
                                 /\ ~Cached(compiled.map, k)
                            ELSE /\ decode(code[k + 1])[2] = 0
                                 /\ <<k, m>> \in compiled.map
                /\ \A kv \in compiled.map :
                     /\ kv[1] \in all /\ kv[2] = PartnerOf(code, kv[1])
                     /\ \A o \in compiled.map : o[1] = kv[1] => o = kv)
    /\ [][(BTStep /\ BTJump # "none") =>
            /\ BTJump[2] = "map" => Cached(compiled.map, mach.idx)
            /\ mach.res' = "run"
            /\ mach.idx' = PartnerOf(compiled.code, mach.idx) + 1]_vars

\* a run has ended after jumps forward and backward of both kinds
JumpsLandWitness ==
    /\ mach.res = "Ok" /\ compiled.map # {}
    /\ hist = {<<"forward", "inline">>, <<"forward", "map">>,
               <<"backward", "inline">>, <<"backward", "map">>}

\* the runs of 32 and more > or < in the source, by their first byte
LongMoves(src) ==
    LET v == valid(src)
    IN  {j \in 1..Len(v) : /\ v[j] \in {">", "<"}
                           /\ (j = 1 \/ v[j - 1] # v[j])
                           /\ ByteRun(v, j) >= 32}

\* C36: insert_loop and run decode opcode bytes only: the index of a run is
\* at every moment on an opcode or at the end of the stream, never on one of
\* the 8 bytes after an IncPtrMany/DecPtrMany, however it got there; those
\* bytes are in the stream, are what rewrite emitted (insert_loop has written
\* no bracket operand into them) and are no key of the map; the stream holds
\* one ...Many opcode for every run of 32 or more moves in the source.
OnlyOpcodesDecoded ==
    compiled.err = "none" =>
        LET code == compiled.code
            ops == OpcodeAt(code)
        IN  /\ mach.idx \in ops \cup {Len(code)}
            /\ \A i \in ops : IsMany(code[i + 1]) => i + 8 <= Len(code) - 1
            /\ \A i \in 0..(Len(code) - 1) :
                  i \notin ops => /\ code[i + 1] = rewrite(prog.src)[i + 1]
                                  /\ ~Cached(compiled.map, i)
            /\ Cardinality({i \in ops : IsMany(code[i + 1])})
                  = Cardinality(LongMoves(prog.src))

\* a run has ended after jumping both ways over operand bytes that read as
\* brackets
OnlyOpcodesWitness ==
    /\ compiled.err = "none" /\ mach.res = "Ok"
    /\ {<<"forward", "map">>, <<"backward", "map">>} \subseteq hist
    /\ \E i \in 0..(Len(compiled.code) - 1) :
          /\ i \notin OpcodeAt(compiled.code)
          /\ decode(compiled.code[i + 1])[1] = I_LEnd
    /\ \E i \in 0..(Len(compiled.code) - 1) :
          /\ i \notin OpcodeAt(compiled.code)
          /\ decode(compiled.code[i + 1])[1] = I_LStart

-----------------------------------------------------------------------------
(* SpecDeadline: the loop of render_c_deadline alone, up to the snapshot or  *)
(* the consteval error.  Time is not measured: every NotEnoughInstructions   *)
(* arm may find the deadline passed, and the deadline passes at some slice   *)
(* boundary if the loop takes slice after slice (strong fairness of the late *)
(* arm: every pass of the loop takes time, the deadline is finite).          *)

DeadlineConfigs ==
    {Config(src, 8, n, <<>>, TRUE) :
        src \in AllTexts(MaxProgLen) \cup SnapTexts, n \in 0..MaxN}

InitDeadline ==
    /\ \E cfg \in DeadlineConfigs, est \in 0..MaxEst :
          /\ stream = optimized_from_text(cfg.src, cfg.w)
          /\ stream.err = "none"
          /\ prog = [src |-> cfg.src, w |-> cfg.w, n |-> cfg.n, input |-> cfg.input,
                     rerr |-> cfg.rerr, est |-> est]
    /\ exe = build(prog.n, <<>>, TRUE)
    /\ hist = [pc |-> "begin", s_idx |-> 0]
    /\ compiled = NotRendered
    /\ ref = [res |-> "idle"]
    /\ mach = [res |-> "idle"]
    /\ first = Unused

NextDeadline ==
    SnapBegin \/ SnapCall \/ SnapIter \/ SnapOk \/ SnapBounds \/ SnapIOError \/ SnapSlice

\* the NotEnoughInstructions arm finding the deadline passed
SliceLate == SnapSlice /\ hist'.pc = "rendered"

SpecDeadline ==
    InitDeadline /\ [][NextDeadline]_vars /\ WF_vars(NextDeadline) /\ SF_vars(SliceLate)

LoopEnded == hist.pc \in {"rendered", "consteval"}

\* the run has written more than the model follows
CutShort == hist.pc = "run" /\ exe.res = "run" /\ ~Followed(exe.data, exe.stdout, prog.w)

\* C37: the loop of render_c_deadline ends for every program: each slice
\* starts with the budget est at the index where the slice before stopped and
\* executes at most est opcodes, and the loop ends once, by the arm of the
\* outcome: Ok, IOError at the first Read, a pointer error, or a
\* NotEnoughInstructions found after the deadline.
DeadlineLoopEnds ==
    /\ <>(LoopEnded \/ CutShort)
    /\ [](hist.pc = "run" =>
            /\ 0 <= exe.instruction_limit /\ exe.instruction_limit <= prog.est)
    /\ [][/\ SnapCall => /\ exe.instruction_limit = prog.est
                         /\ hist.s_idx = exe.idx /\ exe.idx' = hist.s_idx
          /\ SnapIter => exe.instruction_limit' >= exe.instruction_limit - 1
          /\ SnapSlice => hist.s_idx' = exe.idx
          /\ ~LoopEnded
          /\ LoopEnded' =>
                CASE exe.res = "Ok" -> SnapOk
                  [] exe.res = "IOError" ->
                        SnapIOError /\ stream.code[exe.idx + 1].op = "Read"
                  [] exe.res = "NotEnoughInstructions" -> SliceLate
                  [] OTHER -> SnapBounds /\ hist.pc' = "consteval"]_vars

\* a program that never ends has been stopped at a slice boundary after more
\* than one slice
DeadlineWitness ==
    /\ hist.pc = "rendered" /\ exe.res = "NotEnoughInstructions"
    /\ prog.src = <<"+", "[", "]">> /\ prog.est = 1
    /\ hist.s_idx = 2 /\ exe.idx = 2

\* a snapshot has been written with a stop index (instruction_pointer Some)
WithStopIndex == hist.pc = "rendered" /\ exe.res \in {"IOError", "NotEnoughInstructions"}

\* the sentence as it stands: the stop index is an instruction index, and goto
\* and label are written together, the label before the instruction at the
\* stop index
StopIndexIsInstruction ==
    WithStopIndex =>
        /\ exe.idx < Len(stream.code)
        /\ compiled.goto <=> compiled.label # -1

\* C38: a snapshot's stop index is 0 or an instruction index; it is 0 at a
\* Read that is the first instruction and when est is 0 (then also on the
\* empty stream, where 0 is no instruction index), and then neither goto nor
\* label is written and the body runs from its first instruction; otherwise
\* the goto is written and the label stands once, before the instruction at
\* the stop index.
StopIndexIsZeroOrInstruction ==
    WithStopIndex =>
        /\ exe.idx = 0 \/ exe.idx < Len(stream.code)
        /\ exe.idx = 0 =>
              \/ prog.est = 0 /\ exe.res = "NotEnoughInstructions"
              \/ exe.res = "IOError" /\ stream.code[1].op = "Read"
        /\ compiled.goto <=> exe.idx # 0
        /\ compiled.goto <=> compiled.label # -1
        /\ compiled.goto => compiled.label = exe.idx
        /\ compiled.body = stream.code

\* a snapshot with goto and label inside a loop, taken at a slice boundary
StopIndexWitness ==
    /\ WithStopIndex /\ exe.res = "NotEnoughInstructions"
    /\ compiled.goto /\ compiled.label = exe.idx /\ exe.idx > 1
    /\ stream.code[exe.idx + 1].op = "LEnd"

-----------------------------------------------------------------------------
(* The order of the bytes through the adapter (SpecNB) *)

\* the sentence as it stands: at every moment the bytes delivered, the bytes
\* in the thread's cache and the bytes in the shared buffer make up, in this
\* order, the bytes written so far
DeliveredCacheSharedIsWritten ==
    mach.sink \o mach.cache \o mach.shared = hist.accepted

\* the part of the cache the writer has not been given
Undelivered == IF ref.pc = "write_all" THEN mach.cache ELSE <<>>

\* C39: under every interleaving the writer receives the bytes written in
\* the order written, each once: at every moment the bytes delivered, the
\* bytes of the cache not yet given to the writer and the bytes in the shared
\* buffer make up the bytes written so far; from write_all until
\* cache.clear() the cache still holds the bytes just delivered, which are
\* the end of what the writer has.
WrittenOrderKept ==
    /\ mach.sink \o Undelivered \o mach.shared = hist.accepted
    /\ ref.pc \in {"recv", "lock", "replace", "exit"} => mach.cache = <<>>
    /\ ref.pc \in {"flush", "match"} =>
          /\ Len(mach.cache) <= Len(mach.sink)
          /\ mach.cache = SubSeq(mach.sink, Len(mach.sink) - Len(mach.cache) + 1,
                                 Len(mach.sink))

\* a byte is with the writer, the next in the cache before write_all, the
\* third in the shared buffer
WrittenOrderWitness ==
    /\ ref.pc = "write_all"
    /\ mach.sink = <<1>> /\ mach.cache = <<2>> /\ mach.shared = <<3>>

-----------------------------------------------------------------------------
(* SpecTable: trees with several Mul nodes, equal and different, lowered by  *)
(* ITree::synthesize and run.                                                *)

MaxBlocks == 3      \* multiply loops in a row

\* multiply loops, each after a + that makes it act: two copies with different
\* factors, a copy to two cells, the loop without arguments, a copy leftward
MulBlocks ==
    { <<"+", "[", "-", ">", "+", "<", "]">>,
      <<"+", "[", "-", ">", "+", "+", "<", "]">>,
      <<"+", "[", "-", ">", "+", ">", "+", "<", "<", "]">>,
      <<"+", "[", "-", "]">>,
      <<">", "+", "[", "-", "<", "+", ">", "]", "<">> }

RECURSIVE Concat(_)
Concat(seqs) == IF seqs = <<>> THEN <<>> ELSE Head(seqs) \o Concat(Tail(seqs))

TableTexts ==
    {Concat(bs) : bs \in UNION {[1..k -> MulBlocks] : k \in 1..MaxBlocks}}
    \cup {<<"+", "+", "[", ">">> \o a \o <<"[", "<", "]">> \o b \o <<"-", "]">> \o a :
            a \in MulBlocks, b \in MulBlocks}

InitTable ==
    /\ \E src \in TableTexts, w \in Widths :
          /\ prog = [src |-> src, w |-> w, n |-> MaxN + 1,
                     tree |-> rewrite_multiply(to_tree(Token_parse(src)).code)]
          /\ compiled = synthesize(prog.tree)
    /\ mach = IS_new(BfState_new(prog.n, <<>>, FALSE))
    /\ hist = [muls |-> 0]
    /\ stream = Unused /\ exe = Unused /\ ref = Unused /\ first = Unused

\* one pass of the loop of run; hist.muls counts the Multiply executed
TableIter ==
    /\ mach.res = "run"
    /\ mach' = IS_iter(compiled.code, compiled.table, mach, prog.w)
    /\ hist' = IF mach.idx < Len(compiled.code)
                  /\ compiled.code[mach.idx + 1].op = "Multiply"
               THEN [hist EXCEPT !.muls = (@ + 1) % (MaxBlocks + 2)] ELSE hist
    /\ UNCHANGED <<prog, stream, exe, ref, compiled, first>>

NextTable == TableIter

SpecTable == InitTable /\ [][NextTable]_vars

\* the recipes of the Mul nodes of a tree, in the order synth_inner meets them
RECURSIVE MulNodes(_)
MulNodes(tree) ==
    IF tree = <<>> THEN <<>>
    ELSE (IF Head(tree).t = "Mul" THEN <<[range |-> Head(tree).range, args |-> Head(tree).args]>>
          ELSE MulNodes(Head(tree).kids))
         \o MulNodes(Tail(tree))

\* the operands of the Multiply instructions of a stream, in stream order
MulOps(code) ==
    LET at == SelectSeq(code, LAMBDA i : i.op = "Multiply")
    IN  [k \in 1..Len(at) |-> at[k].arg]

\* C40: the table synthesize returns holds no recipe twice; the stream holds
\* one Multiply for every Mul node, in order, each with an operand below the
\* table length and with the node's range and args at that place of the
\* table; every recipe of the table is that of some node; a run reads the
\* table at an index inside it and leaves stream and table as they were.
TableHoldsEachRecipeOnce ==
    /\ [](LET table == compiled.table
              nodes == MulNodes(prog.tree)
              ops == MulOps(compiled.code)
          IN  /\ \A i \in 1..Len(table), j \in 1..Len(table) : table[i] = table[j] => i = j
              /\ Len(ops) = Len(nodes)
              /\ \A k \in 1..Len(ops) :
                    /\ 0 <= ops[k] /\ ops[k] < Len(table)
                    /\ table[ops[k] + 1].range = nodes[k].range
                    /\ table[ops[k] + 1].args = nodes[k].args
              /\ \A i \in 1..Len(table) : \E k \in 1..Len(ops) : ops[k] = i - 1)
    /\ [][TableIter => compiled' = compiled]_vars
    /\ [][(TableIter /\ mach.idx < Len(compiled.code)
            /\ compiled.code[mach.idx + 1].op = "Multiply") =>
              LET lut == compiled.code[mach.idx + 1].arg
              IN  /\ lut < Len(compiled.table)
                  /\ LET r == mul(mach.st, compiled.table[lut + 1].range,
                                  compiled.table[lut + 1].args, prog.w)
                     IN  mach.st' = r.e /\ (mach.res' = "run") = (r.err = "none")]_vars

\* three multiply loops, the first and the third equal, have run: two recipes
\* in the table, the operands 0, 1, 0 in the stream
TableWitness ==
    /\ mach.res = "Ok" /\ hist.muls = 3
    /\ Len(compiled.table) = 2
    /\ MulOps(compiled.code) = <<0, 1, 0>>

====
